---- MODULE Spec2Model ----
(***************************************************************************)
(* A model of the boot-transition subsystem of boot-to-talos:              *)
(*   - the BootOrder codec (internal/efi: marshal, unmarshalBootOrder),    *)
(*   - the firmware variable store and UpdateEFIVariables (internal/efi),  *)
(*   - the kexec loaders (KexecLoadFromAssets, kexecLoadFromUKI),          *)
(*   - the UKI section reader (internal/uki: Extract).                     *)
(* Each component has its own specification over its own variables; the    *)
(* variables of the other components stay at their idle values.            *)
(***************************************************************************)
EXTENDS Integers, Sequences, FiniteSets, TLC

VARIABLES
    \* --- BootOrder codec ---
    cstep,      \* position of the codec run: "list" | "raw" | "marshaled" | "decoded" | "decodedRaw"
    bo,         \* the BootOrderType value handed to marshal
    raw,        \* the byte buffer handed to unmarshalBootOrder
    dec,        \* result of unmarshalBootOrder: [err |-> BOOLEAN, out |-> Seq(uint16)]
    \* --- firmware variable filesystem (efivarfs) ---
    efivars,    \* the variable directory: <<name, scope>> -> file or NoFile
    mountMode,  \* "ro" | "rw": the mount mode of the filesystem, process-wide
    ops,        \* the filesystem operations issued so far, in order
    \* --- UpdateEFIVariables ---
    ppc,                  \* position of the call
    bootOrder,            \* its local bootOrder
    bootEntries,          \* its local bootEntries: index -> loadOption
    talosBootEntryIndex,  \* its local talosBootEntryIndex
    newBootOrder,         \* its local newBootOrder
    perr,                 \* the error it returns, "none" for nil
    \* --- a firmware variable store used through Write and Read ---
    sstep,      \* position of the client: "new" | "open" | "written" | "read" | "closed" | "failed"
    rwWrite,    \* the store's write field
    wlast,      \* the Write call made: [name, attrs, value, err]
    rlast,      \* the Read call made after it: [name, err, value, attrs]
    \* --- the kexec loaders ---
    kpc,        \* position of the call
    proto,      \* "A": KexecLoadFromAssets (kexec_file_load), "B": kexecLoadFromUKI (kexec_load)
    syscalls,   \* the raw system calls the call issued, in order: [name, flags, errno]
    memfds,     \* the staged in-memory files that are open
    kerr,       \* the error the call returned, NotReturned while it has not
    lockdown,   \* the mode selected in /sys/kernel/security/lockdown, "" if unreadable
    sysctl,     \* the content of /proc/sys/kernel/kexec_load_disabled, "" if unreadable
    cmdlineIn,  \* A: assets.Cmdline; B: the bytes read from the .cmdline section
    extraCmdline, \* the caller's extra arguments, joined
    imgCmdline, \* the image's cmdline as the join takes it (B: ukiCmdline)
    loadCmdline, \* cmdlineBytes, the bytes handed to the load call
    \* --- uki.Extract and its readers ---
    upc,        \* position of the caller of Extract
    image,      \* the PE file's section table: records [Name, payload, pad, VirtualSize]
    peOpen,     \* the PE file handle is open
    assets,     \* AssetInfo: section name -> the reader bound to it
    delivered,  \* section name -> the bytes its reader has delivered
    eof,        \* section name -> "" while reading, then "EOF" or "err"
    uerr,       \* the error Extract returned, "" for nil
    \* --- sharedCloser and the readerCloser views of one BootAssets ---
    tpc,        \* thread -> position inside its Close call, "idle" between calls
    tview,      \* thread -> the view its Close call is on
    tcalls,     \* thread -> the Close calls it has started
    onceDone,   \* sync.Once: done
    onceM,      \* sync.Once: the thread holding the mutex, 0 if free
    closeCount, \* the calls of the underlying closer's Close
    returned,   \* the Close calls that have returned
    vstate,     \* view -> "open", "closing" (a Close on it has started), "closed"
    vleft,      \* view -> the bytes of its section not yet read
    vread,      \* view -> "" while reading, then "EOF" or "err"
    \* --- uki.PatchCmdline and uki.ReadCmdline on one file ---
    cmdPc,       \* position of the caller: "patch", "read", "done"
    ukiBytes,    \* the bytes of the file's section data
    ukiSections, \* its section table: records [Name, Offset, Size, VirtualSize]
    ukiBefore,   \* the bytes of the file before PatchCmdline was called
    newCmdline,  \* the argument of PatchCmdline
    patchFault,  \* the I/O failure PatchCmdline met, "none" if none
    patchErr,    \* the error PatchCmdline returned, "" for nil
    cmdlineRead, \* what ReadCmdline returned: [err, value]
    \* --- unmarshalLoadOption on one record ---
    loStep,        \* "record", then "decoded"
    loDescription, \* the description the record was built from
    loHeaderLen,   \* the bytes the record has before its description
    loData,        \* the record
    loOption,       \* what unmarshalLoadOption returned: [err, Description]
    \* --- write-mode stores opened and closed by several callers ---
    serialized, \* the callers let no two lifetimes of write-mode stores overlap
    rwStores,  \* caller -> [open, write, lifetimes]: its store, and how many it has opened
    \* --- listBootEntries on one variable directory ---
    lpc, \* "list", then "listed"
    entryMap,  \* the map listBootEntries returned: index -> [err, Description]
    \* --- one run of the program, in boot or install mode ---
    runPc, \* position of the run
    modeFlag, \* "boot" or "install"
    uefiBoot, \* efi.IsUEFIBoot(): /sys/firmware/efi exists
    assetKind, \* what GetInstallAssets gives: "diskImage", "rootfs" or "neither"
    ukiPath, \* the UKI file name found in the installed image, "" if none
    events,  \* what the run has done, in order
    \* --- extractLayer on one layer, entry by entry ---
    xpc, \* "next" while entries are read, then "done" or "failed"
    tree, \* the filesystem: path -> [kind, data, link], the root left out
    extracted,  \* the number of tar entries handled
    \* --- an HTTP(S) reference installed through HTTPSource ---
    hpc, \* "detect", "assets", then "done"
    urlPath, \* the path of the URL: [stem, exts], the extensions in order
    diskContent, \* the bytes of the disk image before it was compressed
    targetType, \* HTTPSource.targetType, "" before detection and for a container reference
    tempFile, \* HTTPSource.tempFile: [stem, exts], NoPath before the download
    installAssets  \* what GetInstallAssets returned: [err, DiskImage]

codecVars == <<cstep, bo, raw, dec>>
fsVars == <<efivars, mountMode, ops>>
promoteVars == <<ppc, bootOrder, bootEntries, talosBootEntryIndex, newBootOrder, perr>>

storeVars == <<sstep, rwWrite, wlast, rlast>>
kexecInputs == <<proto, lockdown, sysctl, cmdlineIn, extraCmdline>>
kexecVars == <<kpc, syscalls, memfds, kerr, imgCmdline, loadCmdline, kexecInputs>>
ukiVars == <<upc, image, peOpen, assets, delivered, eof, uerr>>
closerVars == <<tpc, tview, tcalls, onceDone, onceM, closeCount, returned, vstate, vleft, vread>>
cmdlineVars == <<cmdPc, ukiBytes, ukiSections, ukiBefore, newCmdline, patchFault, patchErr, cmdlineRead>>
loadOptionVars == <<loStep, loDescription, loHeaderLen, loData, loOption>>
mountsVars == <<serialized, rwStores>>
entriesVars == <<lpc, entryMap>>
runVars == <<runPc, modeFlag, uefiBoot, assetKind, ukiPath, events>>
extractVars == <<xpc, tree, extracted>>
httpVars == <<hpc, urlPath, diskContent, targetType, tempFile, installAssets>>

\* The variables each component leaves alone (the filesystem is shared by
\* UpdateEFIVariables and the store client).
notCodecVars == <<fsVars, promoteVars, storeVars, kexecVars, ukiVars, closerVars, cmdlineVars, loadOptionVars, mountsVars, entriesVars, runVars, extractVars, httpVars>>
notPromoteVars == <<codecVars, storeVars, kexecVars, ukiVars, closerVars, cmdlineVars, loadOptionVars, mountsVars, entriesVars, runVars, extractVars, httpVars>>
notStoreVars == <<codecVars, promoteVars, kexecVars, ukiVars, closerVars, cmdlineVars, loadOptionVars, mountsVars, entriesVars, runVars, extractVars, httpVars>>
notKexecVars == <<codecVars, fsVars, promoteVars, storeVars, ukiVars, closerVars, cmdlineVars, loadOptionVars, mountsVars, entriesVars, runVars, extractVars, httpVars>>
notUkiVars == <<codecVars, fsVars, promoteVars, storeVars, kexecVars, closerVars, cmdlineVars, loadOptionVars, mountsVars, entriesVars, runVars, extractVars, httpVars>>
notCloserVars == <<codecVars, fsVars, promoteVars, storeVars, kexecVars, ukiVars, cmdlineVars, loadOptionVars, mountsVars, entriesVars, runVars, extractVars, httpVars>>
notCmdlineVars == <<codecVars, fsVars, promoteVars, storeVars, kexecVars, ukiVars, closerVars, loadOptionVars, mountsVars, entriesVars, runVars, extractVars, httpVars>>
notLoadOptionVars == <<codecVars, fsVars, promoteVars, storeVars, kexecVars, ukiVars, closerVars, cmdlineVars, mountsVars, entriesVars, runVars, extractVars, httpVars>>
notHttpVars == <<codecVars, fsVars, promoteVars, storeVars, kexecVars, ukiVars, closerVars, cmdlineVars, loadOptionVars, mountsVars, entriesVars, runVars, extractVars>>
notExtractVars == <<codecVars, fsVars, promoteVars, storeVars, kexecVars, ukiVars, closerVars, cmdlineVars, loadOptionVars, mountsVars, entriesVars, runVars, httpVars>>
notRunVars == <<codecVars, fsVars, promoteVars, storeVars, kexecVars, ukiVars, closerVars, cmdlineVars, loadOptionVars, mountsVars, entriesVars, extractVars, httpVars>>
notEntriesVars == <<codecVars, promoteVars, storeVars, kexecVars, ukiVars, closerVars, cmdlineVars, loadOptionVars, mountsVars, runVars, extractVars, httpVars>>
notMountsVars == <<codecVars, promoteVars, storeVars, kexecVars, ukiVars, closerVars, cmdlineVars, loadOptionVars, entriesVars, runVars, extractVars, httpVars>>

vars ==
    <<codecVars, fsVars, promoteVars, storeVars, kexecVars, ukiVars, closerVars, cmdlineVars,
      loadOptionVars,
      mountsVars,
      entriesVars,
      runVars,
      extractVars,
      httpVars>>

(***************************************************************************)
(* Bounds of the model.                                                    *)
(***************************************************************************)
MaxOrderLen == 3
MaxRawLen == 4
MaxValueLen == 2
MaxPayloadLen == 2
MaxChunk == 2
MaxThreads == 2
MaxCloseCalls == 2
MaxViewLen == 2
MaxCmdlineLen == 2
MaxDescriptionLen == 2

(***************************************************************************)
(* The idle values of each component's variables.                          *)
(***************************************************************************)
NoDecode == [err |-> FALSE, out |-> <<>>]

CodecIdle == cstep = "idle" /\ bo = <<>> /\ raw = <<>> /\ dec = NoDecode

FsIdle == efivars = <<>> /\ mountMode = "ro" /\ ops = <<>>

PromoteIdle ==
    /\ ppc = "idle"
    /\ bootOrder = <<>>
    /\ bootEntries = <<>>
    /\ talosBootEntryIndex = -1
    /\ newBootOrder = <<>>
    /\ perr = "none"

NoCall == [name |-> <<>>]

StoreIdle == sstep = "idle" /\ rwWrite = FALSE /\ wlast = NoCall /\ rlast = NoCall

UkiIdle ==
    /\ upc = "idle"
    /\ image = <<>>
    /\ peOpen = FALSE
    /\ assets = <<>>
    /\ delivered = <<>>
    /\ eof = <<>>
    /\ uerr = ""

CloserIdle ==
    /\ tpc = <<>>
    /\ tview = <<>>
    /\ tcalls = <<>>
    /\ onceDone = 0
    /\ onceM = 0
    /\ closeCount = 0
    /\ returned = 0
    /\ vstate = <<>>
    /\ vleft = <<>>
    /\ vread = <<>>

NoCmdlineRead == [err |-> "", value |-> <<>>]

CmdlineIdle ==
    /\ cmdPc = "idle"
    /\ ukiBytes = <<>>
    /\ ukiSections = <<>>
    /\ ukiBefore = <<>>
    /\ newCmdline = <<>>
    /\ patchFault = "none"
    /\ patchErr = ""
    /\ cmdlineRead = NoCmdlineRead

NoOption == [err |-> FALSE, Description |-> <<>>]

LoadOptionIdle ==
    /\ loStep = "idle"
    /\ loDescription = <<>>
    /\ loHeaderLen = 0
    /\ loData = <<>>
    /\ loOption = NoOption

NotReturned == [class |-> "", errno |-> 0]

KexecIdle ==
    /\ kpc = "idle"
    /\ proto = "A"
    /\ syscalls = <<>>
    /\ memfds = {}
    /\ kerr = NotReturned
    /\ lockdown = ""
    /\ sysctl = ""
    /\ cmdlineIn = <<>>
    /\ extraCmdline = <<>>
    /\ imgCmdline = <<>>
    /\ loadCmdline = <<>>

MountsIdle ==
    /\ serialized = TRUE
    /\ rwStores = <<>>

EntriesIdle ==
    /\ lpc = "idle"
    /\ entryMap = <<>>

RunIdle ==
    /\ runPc = "idle"
    /\ modeFlag = "boot"
    /\ uefiBoot = FALSE
    /\ assetKind = "neither"
    /\ ukiPath = ""
    /\ events = <<>>

ExtractIdle ==
    /\ xpc = "idle"
    /\ tree = <<>>
    /\ extracted = 0

NoPath == [stem |-> "", exts |-> <<>>]
NoAssets == [err |-> "", DiskImage |-> <<>>]

HttpIdle ==
    /\ hpc = "idle"
    /\ urlPath = NoPath
    /\ diskContent = <<>>
    /\ targetType = ""
    /\ tempFile = NoPath
    /\ installAssets = NoAssets

(***************************************************************************)
(* Generic helpers.                                                        *)
(***************************************************************************)
\* strings.TrimRight(s, "\x00")
RECURSIVE TrimRightNul(_)
TrimRightNul(str) ==
    IF str # <<>> /\ str[Len(str)] = 0
    THEN TrimRightNul(SubSeq(str, 1, Len(str) - 1))
    ELSE str

\* unicode.IsSpace for the one-byte characters.
IsSpace(b) == b \in {9, 10, 11, 12, 13, 32}

\* strings.TrimSpace(s)
RECURSIVE TrimSpace(_)
TrimSpace(str) ==
    IF str # <<>> /\ IsSpace(str[1]) THEN TrimSpace(Tail(str))
    ELSE IF str # <<>> /\ IsSpace(str[Len(str)]) THEN TrimSpace(SubSeq(str, 1, Len(str) - 1))
    ELSE str

\* strings.Join(elems, sep)
RECURSIVE Join(_, _)
Join(elems, sep) ==
    IF elems = <<>> THEN <<>>
    ELSE IF Len(elems) = 1 THEN elems[1]
    ELSE elems[1] \o sep \o Join(Tail(elems), sep)

\* All sequences over S of length at most n.
SeqsUpTo(S, n) == UNION {[1..k -> S] : k \in 0..n}

\* The 16-bit and 8-bit values the inputs are drawn from.
Uint16Samples == {0, 1, 7, 255, 256, 43981, 65535}
ByteSamples == {0, 1, 128, 255}

(***************************************************************************)
(* BootOrder codec: internal/efi/efi.go                                    *)
(***************************************************************************)
\* binary.LittleEndian.Uint16(d[i*2:]) for the 0-based element i of buffer d.
LittleEndianUint16(d, i) == d[2 * i + 1] + 256 * d[2 * i + 2]

\* binary.LittleEndian.AppendUint16(out, v)
AppendUint16(out, v) == out \o <<v % 256, (v \div 256) % 256>>

\* unmarshalBootOrder with the even-length check left out.
unmarshalBootOrderNoCheck(d) ==
    [err |-> FALSE, out |-> [i \in 1..(Len(d) \div 2) |-> LittleEndianUint16(d, i - 1)]]

\* unmarshalBootOrder reading the two bytes of an element in big-endian order.
unmarshalBootOrderBigEndian(d) ==
    IF Len(d) % 2 # 0
    THEN [err |-> TRUE, out |-> <<>>]
    ELSE [err |-> FALSE,
          out |-> [i \in 1..(Len(d) \div 2) |-> 256 * d[2 * i - 1] + d[2 * i]]]

\* func unmarshalBootOrder(d []byte) (BootOrderType, error)
unmarshalBootOrder(d) ==
    IF Len(d) % 2 # 0
    THEN [err |-> TRUE, out |-> <<>>]
    ELSE [err |-> FALSE,
          out |-> [i \in 1..(Len(d) \div 2) |-> LittleEndianUint16(d, i - 1)]]

\* func (bo BootOrderType) marshal() []byte
RECURSIVE marshal(_)
marshal(order) ==
    IF order = <<>> THEN <<>>
    ELSE AppendUint16(marshal(SubSeq(order, 1, Len(order) - 1)), order[Len(order)])


\* The inputs: a BootOrder list to encode, or a raw buffer read from a variable.
CodecInit ==
    /\ HttpIdle
    /\ ExtractIdle
    /\ RunIdle
    /\ EntriesIdle
    /\ MountsIdle
    /\ LoadOptionIdle
    /\ CmdlineIdle
    /\ CloserIdle
    /\ UkiIdle
    /\ FsIdle
    /\ PromoteIdle
    /\ StoreIdle
    /\ KexecIdle
    /\ dec = NoDecode
    /\ \/ /\ cstep = "list"
          /\ bo \in SeqsUpTo(Uint16Samples, MaxOrderLen)
          /\ raw = <<>>
       \/ /\ cstep = "raw"
          /\ bo = <<>>
          /\ raw \in SeqsUpTo(ByteSamples, MaxRawLen)

\* setBootOrder's ord.marshal()
Marshal ==
    /\ cstep = "list"
    /\ raw' = marshal(bo)
    /\ cstep' = "marshaled"
    /\ UNCHANGED <<bo, dec, notCodecVars>>

\* getBootOrder's unmarshalBootOrder(raw)
Unmarshal ==
    /\ cstep \in {"raw", "marshaled"}
    /\ dec' = unmarshalBootOrder(raw)
    /\ cstep' = IF cstep = "raw" THEN "decodedRaw" ELSE "decoded"
    /\ UNCHANGED <<bo, raw, notCodecVars>>

CodecNext == Marshal \/ Unmarshal

SpecCodec == CodecInit /\ [][CodecNext]_vars

(***************************************************************************)
(* Firmware variable files: internal/efi/efi.go                            *)
(*                                                                         *)
(* A variable name is the sequence of its characters, so that the          *)
(* boot-entry pattern, strconv.ParseUint and fmt.Sprintf("Boot%04X") are   *)
(* computed on the characters.  A string of text (a description) is the    *)
(* sequence of its code points.  The variable directory is a function from *)
(* <<name, scope>> to a file or NoFile; a file is its bytes and its        *)
(* immutable flag.  Files behave as regular files do: a successful write   *)
(* stores the bytes handed to it.                                          *)
(***************************************************************************)
NoFile == [absent |-> TRUE]

File(data, immutable) == [absent |-> FALSE, data |-> data, immutable |-> immutable]

\* var scopeGlobal = uuid.MustParse("8be4df61-...")
scopeGlobal == "8be4df61-93ca-11d2-aa0d-00e098032b8c"

\* Another vendor's scope, whose files List(scopeGlobal) must not return.
scopeVendor == "4a67b082-0a4c-41cf-b6c7-440b29bb8c4f"

\* efiAttribute bits
attrNonVolatile == 1
attrBootserviceAccess == 2
attrRuntimeAccess == 4

BootPrefix == <<"B", "o", "o", "t">>
BootOrderName == <<"B", "o", "o", "t", "O", "r", "d", "e", "r">>

HexUpperDigits == <<"0", "1", "2", "3", "4", "5", "6", "7", "8", "9", "A", "B", "C", "D", "E", "F">>
HexLowerDigits == <<"0", "1", "2", "3", "4", "5", "6", "7", "8", "9", "a", "b", "c", "d", "e", "f">>

\* The characters [0-9A-Fa-f] of bootVarRegexp.
HexChars == {HexUpperDigits[i] : i \in 1..16} \cup {HexLowerDigits[i] : i \in 1..16}

\* The value strconv.ParseUint gives one hexadecimal digit.
HexVal(c) ==
    IF \E i \in 1..16 : HexUpperDigits[i] = c
    THEN (CHOOSE i \in 1..16 : HexUpperDigits[i] = c) - 1
    ELSE (CHOOSE i \in 1..16 : HexLowerDigits[i] = c) - 1

\* fmt.Sprintf("%04X", idx) and fmt.Sprintf("%04x", idx), for idx < 65536.
FormatHex4(idx, digits) ==
    << digits[((idx \div 4096) % 16) + 1], digits[((idx \div 256) % 16) + 1],
       digits[((idx \div 16) % 16) + 1], digits[(idx % 16) + 1] >>

\* bootVarRegexp = ^Boot([0-9A-Fa-f]{4})$
bootVarRegexp(varName) ==
    /\ Len(varName) = 8
    /\ SubSeq(varName, 1, 4) = BootPrefix
    /\ \A i \in 5..8 : varName[i] \in HexChars

\* strconv.ParseUint(s[1], 16, 16) on the captured four digits.
ParseUint16Hex(varName) ==
    4096 * HexVal(varName[5]) + 256 * HexVal(varName[6]) + 16 * HexVal(varName[7]) + HexVal(varName[8])

\* binary.LittleEndian.PutUint32(buf[:4], v)
PutUint32(v) ==
    << v % 256, (v \div 256) % 256, (v \div 65536) % 256, (v \div 16777216) % 256 >>

\* binary.LittleEndian.Uint32(val[:4])
Uint32(b) == b[1] + 256 * b[2] + 65536 * b[3] + 16777216 * b[4]

\* attrs | attrBootserviceAccess, on the bit of weight 2.
OrBootserviceAccess(attrs) ==
    IF (attrs \div attrBootserviceAccess) % 2 = 1 THEN attrs ELSE attrs + attrBootserviceAccess

\* Write's rule with the implied bit left out.
ImpliedAttrsUnchanged(attrs) == attrs

\* Write, lines 324-328: runtime access implies boot service access.
ImpliedAttrs(attrs) ==
    IF (attrs \div attrRuntimeAccess) % 2 = 1 THEN OrBootserviceAccess(attrs) ELSE attrs

\* The UTF-16LE bytes of a text whose code points are below 65536.
RECURSIVE Utf16LE(_)
Utf16LE(text) ==
    IF text = <<>> THEN <<>>
    ELSE <<text[1] % 256, text[1] \div 256>> \o Utf16LE(Tail(text))

\* efiEncoding.NewDecoder().Bytes(b): one code point per 16-bit unit (the
\* units are not surrogates here); a trailing single byte decodes to U+FFFD.
Utf16Decode(b) ==
    [i \in 1..(Len(b) \div 2) |-> b[2 * i - 1] + 256 * b[2 * i]]
        \o (IF Len(b) % 2 = 1 THEN <<65533>> ELSE <<>>)

\* bytes.Index(b, []byte{0x00, 0x00}): the 0-based offset of the first two
\* consecutive zero bytes, at any alignment, or -1.
IndexNulNul(b) ==
    LET hits == {i \in 1..(Len(b) - 1) : b[i] = 0 /\ b[i + 1] = 0}
    IN  IF hits = {} THEN -1
        ELSE (CHOOSE i \in hits : \A j \in hits : i <= j) - 1

\* bytes.TrimSuffix(description, []byte{0})
TrimSuffixNul(text) ==
    IF text # <<>> /\ text[Len(text)] = 0 THEN SubSeq(text, 1, Len(text) - 1) ELSE text

\* func unmarshalLoadOption(data []byte) (*loadOption, error)
unmarshalLoadOption(data) ==
    IF Len(data) < 6 THEN [err |-> TRUE, Description |-> <<>>]
    ELSE LET nullIdx == IndexNulNul(SubSeq(data, 7, Len(data)))
         IN  IF nullIdx = -1 THEN [err |-> TRUE, Description |-> <<>>]
             ELSE LET descriptionEnd == 6 + nullIdx + 1
                      descriptionRaw == SubSeq(data, 7, descriptionEnd)
                  IN  [err |-> FALSE,
                       Description |-> TrimSuffixNul(Utf16Decode(descriptionRaw))]

\* The load-option record unmarshalLoadOption reads: a 4-byte attribute word
\* and a 2-byte device-path length, the description in UTF-16LE, a 16-bit NUL,
\* the device path.
LoadOptionRecord(description, devicePath) ==
    <<1, 0, 0, 0>> \o <<Len(devicePath) % 256, Len(devicePath) \div 256>>
        \o Utf16LE(description) \o <<0, 0>> \o devicePath

\* "Talos Linux UKI", the description UpdateEFIVariables looks for.
TalosDescription == <<84, 97, 108, 111, 115, 32, 76, 105, 110, 117, 120, 32, 85, 75, 73>>
\* "Other"
OtherDescription == <<79, 116, 104, 101, 114>>

\* func varPath(scope uuid.UUID, varName string) string
varPath(scope, varName) == <<varName, scope>>

\* func (rw *efiFilesystemReaderWriter) Read(scope, varName)
Read(fs, scope, varName) ==
    LET path == varPath(scope, varName)
    IN  IF path \notin DOMAIN fs \/ fs[path].absent
        THEN [err |-> "notexist", value |-> <<>>, attrs |-> 0]
        ELSE IF Len(fs[path].data) < 4
        THEN [err |-> "malformed", value |-> <<>>, attrs |-> 0]
        ELSE [err |-> "none",
              value |-> SubSeq(fs[path].data, 5, Len(fs[path].data)),
              attrs |-> Uint32(SubSeq(fs[path].data, 1, 4))]

\* func (rw *efiFilesystemReaderWriter) List(scope): the names of the files
\* whose name ends in -<scope>, with that suffix stripped.
List(fs, scope) == {path[1] : path \in {q \in DOMAIN fs : ~fs[q].absent /\ q[2] = scope}}

\* func getBootEntry(rw efiReadWriter, idx int) (*loadOption, error)
getBootEntry(fs, idx) ==
    LET upper == Read(fs, scopeGlobal, BootPrefix \o FormatHex4(idx, HexUpperDigits))
        r == IF upper.err = "notexist"
             THEN Read(fs, scopeGlobal, BootPrefix \o FormatHex4(idx, HexLowerDigits))
             ELSE upper
    IN  IF r.err # "none" THEN [err |-> TRUE, Description |-> <<>>]
        ELSE unmarshalLoadOption(r.value)

\* func listBootEntries(rw efiReadWriter) (map[int]*loadOption, error), once
\* List succeeded: the map from index to decoded entry.  A name that does not
\* match, or an entry that cannot be read or decoded, is skipped.
listBootEntries(fs) ==
    LET idxs == {ParseUint16Hex(n) : n \in {m \in List(fs, scopeGlobal) : bootVarRegexp(m)}}
        good == {idx \in idxs : ~getBootEntry(fs, idx).err}
    IN  [idx \in good |-> getBootEntry(fs, idx)]

(***************************************************************************)
(* Write: internal/efi/efi.go, lines 298-361.                              *)
(*                                                                         *)
(* The outcomes of the system calls Write makes are its fault record f:    *)
(*   f.clear   "ok" | "openfail" | "getfail" | "setfail"  (lines 307-319)  *)
(*   f.open    whether os.OpenFile succeeds, the file permitting (331)     *)
(*   f.write   "ok" | "writefail" | "closefail"           (lines 346-349)  *)
(*   f.restore "ok" | "openfail" | "setfail"              (lines 353-357)  *)
(* The kernel refuses to open an immutable file for writing, and any file  *)
(* of a filesystem mounted read-only.                                      *)
(***************************************************************************)
Faults ==
    [clear : {"ok", "openfail", "getfail", "setfail"},
     open : BOOLEAN,
     write : {"ok", "writefail", "closefail"},
     restore : {"ok", "openfail", "setfail"}]

NoFaults == [clear |-> "ok", open |-> TRUE, write |-> "ok", restore |-> "ok"]

Exists(fs, path) == path \in DOMAIN fs /\ ~fs[path].absent

\* Lines 303-322: the attempt to clear FS_IMMUTABLE_FL, made if the file exists.
ClearImmutable(fs, path, f) ==
    IF ~Exists(fs, path) THEN [fs |-> fs, ops |-> <<>>]
    ELSE [fs |-> IF f.clear = "ok"
                 THEN [fs EXCEPT ![path] = File(fs[path].data, FALSE)]
                 ELSE fs,
          ops |-> <<[op |-> "clear-immutable", name |-> path[1], ok |-> f.clear = "ok"]>>]

\* Lines 351-358: the attempt to set FS_IMMUTABLE_FL again.
RestoreImmutable(fs, path, f) ==
    [fs |-> IF f.restore = "ok"
            THEN [fs EXCEPT ![path] = File(fs[path].data, TRUE)]
            ELSE fs,
     ops |-> <<[op |-> "set-immutable", name |-> path[1], ok |-> f.restore = "ok"]>>]

\* A failed restore of the flag made the error of Write.
WriteResultRestoreFatal(err, restored) == IF restored THEN err ELSE "restore"

\* Lines 353-360: the outcome of the restore is dropped, Write returns err.
WriteResult(err, restored) == err

\* The flag set again whatever Write and Close returned.
RestoreAttemptedAlways(err) == TRUE

\* Line 352: if err == nil, err being that of f.Write or else of f.Close.
RestoreAttempted(err) == err = "none"

\* func (rw *efiFilesystemReaderWriter) Write(scope, varName, attrs, value)
\* on a store whose write field is writable, the filesystem being mounted mode.
Write(fs, mode, writable, scope, varName, attrs, value, f) ==
    IF ~writable THEN [fs |-> fs, ops |-> <<>>, err |-> "readonly-store"]
    ELSE
    LET path == varPath(scope, varName)
        cleared == ClearImmutable(fs, path, f)
        fs1 == cleared.fs
        canOpen == /\ f.open
                   /\ mode = "rw"
                   /\ (Exists(fs1, path) => ~fs1[path].immutable)
        buf == PutUint32(ImpliedAttrs(attrs)) \o value
        openOp == [op |-> "open-write", name |-> varName, ok |-> canOpen]
        writeOp == [op |-> "write", name |-> varName, data |-> buf, ok |-> f.write # "writefail"]
        \* O_TRUNC emptied the file; a failed write stored nothing
        fs2 == [fs1 EXCEPT ![path] = File(IF f.write = "writefail" THEN <<>> ELSE buf, FALSE)]
        restored == RestoreImmutable(fs2, path, f)
        err == CASE f.write = "writefail" -> "write"
                 [] f.write = "closefail" -> "close"
                 [] OTHER -> "none"
    IN  IF ~canOpen
        THEN [fs |-> fs1, ops |-> cleared.ops \o <<openOp>>, err |-> "open"]
        ELSE IF RestoreAttempted(err)
        THEN [fs |-> restored.fs,
              ops |-> cleared.ops \o <<openOp, writeOp>> \o restored.ops,
              err |-> WriteResult(err, f.restore = "ok")]
        ELSE [fs |-> fs2, ops |-> cleared.ops \o <<openOp, writeOp>>, err |-> err]

(***************************************************************************)
(* UpdateEFIVariables: internal/efi/efi.go, lines 196-261.                 *)
(***************************************************************************)
\* The comparison with "Talos Linux UKI" left out: every listed entry matches.
talosIndexSetAnyDescription(entries) == DOMAIN entries

\* The indices whose entry carries the description, lines 224 and 239-244.
talosIndexSet(entries) ==
    {idx \in DOMAIN entries : entries[idx].Description = TalosDescription}

\* Lines 235-250 excluding only the entry placed first, not its duplicates.
BuildNewBootOrderFirstOnly(entries, order, first) ==
    <<first>> \o SelectSeq(order, LAMBDA idx : idx # first)

\* Lines 235-250: the matched index, then the original order without the
\* indices of talosIndexSet.
BuildNewBootOrder(entries, order, first) ==
    <<first>> \o SelectSeq(order, LAMBDA idx : idx \notin talosIndexSet(entries))

\* Where a return sends the call with a deferred Close pending but not run.
AfterReturnNoDefer == "done"

\* Line 202, defer efiRW.Close(): every return after it runs Close first.
AfterReturn == "close"

\* The boot-entry indices of the firmware states, and the contents of each.
EntryIdx == {1, 7, 9, 10}
DevicePath == <<4, 1, 42, 0, 127, 255, 4, 0>>
EntryAttrs == PutUint32(7)
TalosEntry == File(EntryAttrs \o LoadOptionRecord(TalosDescription, DevicePath), TRUE)
OtherEntry == File(EntryAttrs \o LoadOptionRecord(OtherDescription, DevicePath), TRUE)
\* A record with no terminator after its description.
MalformedEntry == File(EntryAttrs \o <<1, 0, 0, 0, 0, 0, 84, 0, 97>>, TRUE)

EntryChoices ==
    [EntryIdx -> {NoFile, TalosEntry, OtherEntry, MalformedEntry}]

\* The name of the variable of index idx: upper-case digits, and lower-case
\* ones for index 10, which firmware may write either way.
EntryName(idx) ==
    BootPrefix \o FormatHex4(idx, IF idx = 10 THEN HexLowerDigits ELSE HexUpperDigits)

\* The values of the indices of BootOrder.
OrderIdx == {1, 7, 9}

\* The BootOrder file: absent, shorter than its attribute word, of odd value
\* length, or a list.
OrderChoices ==
    {NoFile, File(<<7, 0, 0>>, TRUE), File(PutUint32(7) \o <<1, 0, 7>>, TRUE)}
        \cup {File(PutUint32(7) \o marshal(o), imm) :
                o \in SeqsUpTo(OrderIdx, MaxOrderLen), imm \in BOOLEAN}

VarKeys ==
    {varPath(scopeGlobal, BootOrderName)}
        \cup {varPath(scopeGlobal, EntryName(idx)) : idx \in EntryIdx}
        \cup {varPath(scopeVendor, EntryName(7))}

\* The variable directory made of an entry choice and a BootOrder choice; a
\* file of another vendor's scope is always there.
Firmware(entries, order) ==
    [path \in VarKeys |->
        IF path = varPath(scopeGlobal, BootOrderName) THEN order
        ELSE IF path[2] = scopeVendor THEN TalosEntry
        ELSE entries[CHOOSE idx \in EntryIdx : EntryName(idx) = path[1]]]

\* Entry choices kept small: index 1 is another system's or absent, index 10
\* (lower-case name) is ours or absent.
FirmwareStates ==
    {Firmware(e, o) :
        e \in {c \in EntryChoices : /\ c[1] \in {NoFile, OtherEntry, TalosEntry}
                                    /\ c[7] \in {NoFile, TalosEntry}
                                    /\ c[10] \in {NoFile, TalosEntry}
                                    /\ c[9] \in {NoFile, TalosEntry, MalformedEntry}},
        o \in OrderChoices}

PromoteInit ==
    /\ HttpIdle
    /\ ExtractIdle
    /\ RunIdle
    /\ EntriesIdle
    /\ MountsIdle
    /\ LoadOptionIdle
    /\ CmdlineIdle
    /\ CloserIdle
    /\ UkiIdle
    /\ CodecIdle
    /\ StoreIdle
    /\ KexecIdle
    /\ efivars \in FirmwareStates
    /\ mountMode = "ro"
    /\ ops = <<>>
    /\ ppc = "open"
    /\ bootOrder = <<>>
    /\ bootEntries = <<>>
    /\ talosBootEntryIndex = -1
    /\ newBootOrder = <<>>
    /\ perr = "none"

\* Lines 198-202: newEFIReaderWriter(true) remounts read-write or fails.
PromoteOpen ==
    /\ ppc = "open"
    /\ \E ok \in BOOLEAN :
        /\ ops' = Append(ops, [op |-> "remount", mode |-> "rw", ok |-> ok])
        /\ mountMode' = IF ok THEN "rw" ELSE mountMode
        /\ ppc' = IF ok THEN "getBootOrder" ELSE "done"
        /\ perr' = IF ok THEN "none" ELSE "remount"
    /\ UNCHANGED <<efivars, bootOrder, bootEntries, talosBootEntryIndex, newBootOrder, notPromoteVars>>

\* No error passes for a missing variable.
IsNotExistNever(err) == FALSE

\* Line 207: errors.Is(err, fs.ErrNotExist)
IsNotExist(err) == err = "notexist"

\* Lines 204-211: getBootOrder; a missing variable is the empty order.
PromoteGetBootOrder ==
    /\ ppc = "getBootOrder"
    /\ \E ioError \in BOOLEAN :
        LET r == IF ioError THEN [err |-> "io", value |-> <<>>, attrs |-> 0]
                 ELSE Read(efivars, scopeGlobal, BootOrderName)
            d == unmarshalBootOrder(r.value)
            failed == (r.err # "none" /\ ~IsNotExist(r.err)) \/ (r.err = "none" /\ d.err)
        IN  /\ ops' = Append(ops, [op |-> "read", name |-> BootOrderName, ok |-> r.err = "none",
                                    err |-> r.err])
            /\ bootOrder' = IF r.err = "none" /\ ~d.err THEN d.out ELSE <<>>
            /\ perr' = IF failed THEN "getBootOrder" ELSE "none"
            /\ ppc' = IF failed THEN AfterReturn ELSE "listBootEntries"
    /\ UNCHANGED <<efivars, mountMode, bootEntries, talosBootEntryIndex, newBootOrder, notPromoteVars>>

\* Lines 215-219: listBootEntries.
PromoteListBootEntries ==
    /\ ppc = "listBootEntries"
    /\ \E ok \in BOOLEAN :
        /\ ops' = Append(ops, [op |-> "list", ok |-> ok])
        /\ bootEntries' = IF ok THEN listBootEntries(efivars) ELSE <<>>
        /\ perr' = IF ok THEN "none" ELSE "listBootEntries"
        /\ ppc' = IF ok THEN "find" ELSE AfterReturn
    /\ UNCHANGED <<efivars, mountMode, bootOrder, talosBootEntryIndex, newBootOrder, notPromoteVars>>

\* Lines 221-233: the range over the map bootEntries stops at the first
\* entry it meets that carries the description; a Go map is ranged over in
\* no fixed order, so that entry is any of those that carry it.
PromoteFind ==
    /\ ppc = "find"
    /\ \/ /\ talosIndexSet(bootEntries) = {}
          /\ perr' = "notfound"
          /\ ppc' = AfterReturn
          /\ UNCHANGED talosBootEntryIndex
       \/ /\ \E idx \in talosIndexSet(bootEntries) : talosBootEntryIndex' = idx
          /\ ppc' = "setBootOrder"
          /\ UNCHANGED perr
    /\ UNCHANGED <<fsVars, bootOrder, bootEntries, newBootOrder, notPromoteVars>>

\* Lines 235-260: build the new order and write it with setBootOrder.
PromoteSetBootOrder ==
    /\ ppc = "setBootOrder"
    /\ newBootOrder' = BuildNewBootOrder(bootEntries, bootOrder, talosBootEntryIndex)
    /\ \E f \in Faults :
        LET w == Write(efivars, mountMode, TRUE, scopeGlobal, BootOrderName,
                       attrNonVolatile + attrRuntimeAccess, marshal(newBootOrder'), f)
        IN  /\ efivars' = w.fs
            /\ ops' = ops \o w.ops
            /\ perr' = IF w.err = "none" THEN "none" ELSE "setBootOrder"
    /\ ppc' = AfterReturn
    /\ UNCHANGED <<mountMode, bootOrder, bootEntries, talosBootEntryIndex, notPromoteVars>>

\* Lines 286-292, run by the defer of line 202: remount read-only.
PromoteClose ==
    /\ ppc = "close"
    /\ \E ok \in BOOLEAN :
        /\ ops' = Append(ops, [op |-> "remount", mode |-> "ro", ok |-> ok])
        /\ mountMode' = IF ok THEN "ro" ELSE mountMode
    /\ ppc' = "done"
    /\ UNCHANGED <<efivars, bootOrder, bootEntries, talosBootEntryIndex, newBootOrder, perr, notPromoteVars>>

PromoteNext ==
    \/ PromoteOpen
    \/ PromoteGetBootOrder
    \/ PromoteListBootEntries
    \/ PromoteFind
    \/ PromoteSetBootOrder
    \/ PromoteClose

SpecPromote == PromoteInit /\ [][PromoteNext]_vars

(***************************************************************************)
(* A client of the firmware variable store: newEFIReaderWriter, one Write, *)
(* one Read, Close (internal/efi/efi.go, lines 275-372).                   *)
(***************************************************************************)
\* "SecureBoot"-like second name, a variable that does not exist yet.
NewVarName == <<"T", "e", "s", "t">>

StoreNames == {BootOrderName, NewVarName}

StoreKeys == {varPath(scopeGlobal, n) : n \in StoreNames}

\* Attribute words: every combination of the three defined bits, and one
\* with a bit of the top byte set.
AttrSamples == 0..7 \cup {1073741828}

ValueSamples == SeqsUpTo({0, 255}, MaxValueLen)

\* BootOrder is absent, or present with some content, immutable or not.
StoreFirmwareStates ==
    {[path \in StoreKeys |->
        IF path[1] = BootOrderName THEN order ELSE NoFile] :
     order \in {NoFile} \cup {File(PutUint32(7) \o <<1, 0, 7, 0>>, imm) : imm \in BOOLEAN}}

StoreInit ==
    /\ HttpIdle
    /\ ExtractIdle
    /\ RunIdle
    /\ EntriesIdle
    /\ MountsIdle
    /\ LoadOptionIdle
    /\ CmdlineIdle
    /\ CloserIdle
    /\ UkiIdle
    /\ CodecIdle
    /\ PromoteIdle
    /\ KexecIdle
    /\ efivars \in StoreFirmwareStates
    /\ mountMode = "ro"
    /\ ops = <<>>
    /\ sstep = "new"
    /\ rwWrite = FALSE
    /\ wlast = NoCall
    /\ rlast = NoCall

\* func newEFIReaderWriter(write bool): a write-mode store remounts the
\* filesystem read-write, or fails.
StoreOpen ==
    /\ sstep = "new"
    /\ \E write \in BOOLEAN, ok \in BOOLEAN :
        /\ rwWrite' = (write /\ ok)
        /\ ops' = IF write THEN Append(ops, [op |-> "remount", mode |-> "rw", ok |-> ok]) ELSE ops
        /\ mountMode' = IF write /\ ok THEN "rw" ELSE mountMode
        /\ sstep' = IF write /\ ~ok THEN "failed" ELSE "open"
    /\ UNCHANGED <<efivars, wlast, rlast, notStoreVars>>

\* A call of Write with some name, attribute word and value.
StoreWrite ==
    /\ sstep = "open"
    /\ \E name \in StoreNames, attrs \in AttrSamples, value \in ValueSamples, f \in Faults :
        LET w == Write(efivars, mountMode, rwWrite, scopeGlobal, name, attrs, value, f)
        IN  /\ efivars' = w.fs
            /\ ops' = ops \o w.ops
            /\ wlast' = [name |-> name, attrs |-> attrs, value |-> value, err |-> w.err,
                          existed |-> Exists(efivars, varPath(scopeGlobal, name)),
                          writeFault |-> f.write]
    /\ sstep' = "written"
    /\ UNCHANGED <<mountMode, rwWrite, rlast, notStoreVars>>

\* A call of Read after the Write.
StoreRead ==
    /\ sstep = "written"
    /\ \E name \in StoreNames :
        LET r == Read(efivars, scopeGlobal, name)
        IN  rlast' = [name |-> name, err |-> r.err, value |-> r.value, attrs |-> r.attrs]
    /\ sstep' = "read"
    /\ UNCHANGED <<fsVars, rwWrite, wlast, notStoreVars>>

\* func (rw *efiFilesystemReaderWriter) Close(): a write-mode store remounts
\* read-only.
StoreClose ==
    /\ sstep \in {"open", "written", "read"}
    /\ \E ok \in BOOLEAN :
        /\ ops' = IF rwWrite THEN Append(ops, [op |-> "remount", mode |-> "ro", ok |-> ok]) ELSE ops
        /\ mountMode' = IF rwWrite /\ ok THEN "ro" ELSE mountMode
    /\ sstep' = "closed"
    /\ UNCHANGED <<efivars, rwWrite, wlast, rlast, notStoreVars>>

StoreNext == StoreOpen \/ StoreWrite \/ StoreRead \/ StoreClose

SpecStore == StoreInit /\ [][StoreNext]_vars

(***************************************************************************)
(* Claims about the firmware variable store.                               *)
(***************************************************************************)
\* Attribute word a has the bit of weight w set.
HasAttr(a, w) == (a \div w) % 2 = 1

\* C7: for a write-mode store and any attribute set and value, a successful
\* write(scope, name, attrs, value) followed by read(scope, name) returns the
\* same value and the attribute set attrs, with boot-service-access
\* additionally set whenever attrs contained runtime-access and attrs
\* unchanged otherwise; writing runtime-access alone reads back with both
\* runtime-access and boot-service-access set.
C7_WriteReadRoundTrip ==
    (sstep = "read" /\ rwWrite /\ wlast.err = "none" /\ rlast.name = wlast.name) =>
        /\ rlast.err = "none"
        /\ rlast.value = wlast.value
        /\ rlast.attrs =
              IF HasAttr(wlast.attrs, 4) /\ ~HasAttr(wlast.attrs, 2)
              THEN wlast.attrs + 2 ELSE wlast.attrs
        /\ wlast.attrs = 4 => rlast.attrs = 6

\* Runtime-access alone was written with a value, successfully, over an
\* existing variable, and read back.
C7_Witness ==
    /\ sstep = "read"
    /\ rwWrite
    /\ wlast.err = "none"
    /\ wlast.name = BootOrderName
    /\ rlast.name = BootOrderName
    /\ wlast.attrs = 4
    /\ wlast.value = <<255, 0>>
    /\ rlast.attrs = 6

\* The steps of Write in the log, in order.
WriteSteps ==
    SelectSeq(ops, LAMBDA o : o.op \in {"clear-immutable", "open-write", "write", "set-immutable"})

StepCount(kind) == Cardinality({k \in 1..Len(WriteSteps) : WriteSteps[k].op = kind})

\* C20: within one Write on a write-mode store, the attempt to clear the
\* immutable flag is made only if the file exists and precedes the open for
\* writing; the record, 4 little-endian attribute bytes then the value, goes to
\* the file in exactly one write call; and the attempt to set the flag again
\* is made only after that write succeeded, never after a failed open or a
\* failed write.
C20_WriteStepOrder ==
    (sstep \in {"written", "read"} /\ rwWrite) =>
        /\ Len(WriteSteps) >= 1
        /\ \A k \in 1..Len(WriteSteps) :
              /\ WriteSteps[k].name = wlast.name
              /\ WriteSteps[k].op = "clear-immutable" => (k = 1 /\ wlast.existed)
              /\ WriteSteps[k].op = "open-write" => k = (IF wlast.existed THEN 2 ELSE 1)
              /\ WriteSteps[k].op = "write" =>
                    /\ WriteSteps[k - 1].op = "open-write" /\ WriteSteps[k - 1].ok
                    /\ WriteSteps[k].data =
                          PutUint32(IF HasAttr(wlast.attrs, 4) /\ ~HasAttr(wlast.attrs, 2)
                                    THEN wlast.attrs + 2 ELSE wlast.attrs) \o wlast.value
              /\ WriteSteps[k].op = "set-immutable" =>
                    /\ k = Len(WriteSteps)
                    /\ WriteSteps[k - 1].op = "write" /\ WriteSteps[k - 1].ok
                    /\ wlast.err = "none"
        /\ StepCount("open-write") = 1
        /\ StepCount("write") = (IF wlast.err = "open" THEN 0 ELSE 1)
        /\ StepCount("set-immutable") <= 1

\* A Write over an existing variable went through all four steps.
C20_Witness ==
    /\ sstep = "written"
    /\ rwWrite
    /\ wlast.err = "none"
    /\ wlast.existed
    /\ Len(WriteSteps) = 4
    /\ WriteSteps[4].op = "set-immutable"

\* A Write whose write call failed.
C20_WitnessFailedWrite ==
    /\ sstep = "written"
    /\ rwWrite
    /\ wlast.err = "write"
    /\ WriteSteps[Len(WriteSteps)].op = "write"

\* The steps of the given kind that failed.
FailedSteps(kind) ==
    {k \in 1..Len(WriteSteps) : WriteSteps[k].op = kind /\ ~WriteSteps[k].ok}

\* C21: a failure of the clear step or of the re-apply step never changes
\* the result of Write: whether or not clearing failed, Write goes on to open
\* the file and returns what the open, the write and the close give; after a
\* successful write a failed re-apply leaves the result nil.
C21_FlagStepsBestEffort ==
    (sstep \in {"written", "read"} /\ rwWrite) =>
        /\ StepCount("open-write") = 1
        /\ wlast.err =
              IF FailedSteps("open-write") # {} THEN "open"
              ELSE CASE wlast.writeFault = "writefail" -> "write"
                     [] wlast.writeFault = "closefail" -> "close"
                     [] OTHER -> "none"
        /\ FailedSteps("set-immutable") # {} => wlast.err = "none"

\* Both the clear and the re-apply failed and Write returned nil.
C21_Witness ==
    /\ sstep = "written"
    /\ rwWrite
    /\ FailedSteps("clear-immutable") # {}
    /\ FailedSteps("set-immutable") # {}
    /\ wlast.err = "none"

\* The clear failed on an immutable file and Write returned the open error.
C21_WitnessOpenFailed ==
    /\ sstep = "written"
    /\ rwWrite
    /\ FailedSteps("clear-immutable") # {}
    /\ wlast.err = "open"

(***************************************************************************)
(* The kexec loaders.                                                      *)
(*   Protocol A: KexecLoadFromAssets, unnamed/part_004 lines 53-150        *)
(*   Protocol B: kexecLoadFromUKI,    unnamed/part_000 lines 462-611       *)
(* syscalls holds the raw system calls the loader issues itself through    *)
(* unix.Syscall and unix.Syscall6: memfd_create, kexec_file_load,          *)
(* kexec_load, reboot.                                                     *)
(***************************************************************************)
EPERM == 1
EBUSY == 16
EINVAL == 22
ENOSYS == 38
ENOTSUP == 95
EKEYREJECTED == 129

\* const KEXEC_FILE_LOAD_UNSAFE = 0x00000001
KEXEC_FILE_LOAD_UNSAFE == 1

\* const KEXEC_ARCH_X86_64 = 62 << 16
KEXEC_ARCH_X86_64 == 4063232

\* const MFD_CLOEXEC = 0x0001
MFD_CLOEXEC == 1

\* const LINUX_REBOOT_CMD_KEXEC = 0x45584543
LINUX_REBOOT_CMD_KEXEC == 1163412803

\* The values a system call's errno is drawn from: 0 (success), the ones the
\* loaders name, and ENOMEM (12) for the rest.
ErrnoSamples == {0, EPERM, 12, EBUSY, EINVAL, ENOSYS, ENOTSUP, EKEYREJECTED}

\* No lockdown mode counts as selected.
InLockdownNever(selected) == FALSE

\* strings.Contains(lockdown, "[confidentiality]") || strings.Contains(lockdown, "[integrity]")
InLockdown(selected) == selected \in {"confidentiality", "integrity"}

\* func handleKexecError(errno syscall.Errno) error: the class of the error.
handleKexecError(errno, selected, disabled) ==
    CASE errno = ENOSYS -> [class |-> "Unsupported", errno |-> errno]
      [] errno = EPERM ->
            IF InLockdown(selected) THEN [class |-> "Permission-lockdown", errno |-> errno]
            ELSE IF disabled = "1" THEN [class |-> "Permission-sysctl", errno |-> errno]
            ELSE [class |-> "Permission-unknown", errno |-> errno]
      [] errno = EBUSY -> [class |-> "Busy", errno |-> errno]
      [] errno = EKEYREJECTED -> [class |-> "SignatureRejected", errno |-> errno]
      [] errno = ENOTSUP -> [class |-> "NotSupported", errno |-> errno]
      [] OTHER -> [class |-> "UnknownSyscall", errno |-> errno]

\* kexecLoadFromUKI's switch on errno, part_000 lines 562-587.
kexecLoadError(errno, selected, disabled) ==
    CASE errno = ENOSYS -> [class |-> "Unsupported", errno |-> errno]
      [] errno = EPERM ->
            IF InLockdown(selected) THEN [class |-> "Permission-lockdown", errno |-> errno]
            ELSE IF disabled = "1" THEN [class |-> "Permission-sysctl", errno |-> errno]
            ELSE [class |-> "Permission-unknown", errno |-> errno]
      [] errno = EBUSY -> [class |-> "Busy", errno |-> errno]
      [] errno = EINVAL -> [class |-> "InvalidArgument", errno |-> errno]
      [] OTHER -> [class |-> "UnknownSyscall", errno |-> errno]

\* What the message of a permission error tells the operator to do, "" when
\* it tells nothing: the text after "Solutions:", "Run:", "Possible causes:"
\* or "Check" in the messages of part_004 lines 167-175 and part_000 lines
\* 573-579.
RemediationHint(protocol, class) ==
    CASE class = "Permission-lockdown" -> "disable Secure Boot or boot with lockdown=none"
      [] class = "Permission-sysctl" -> "sudo sysctl -w kernel.kexec_load_disabled=0"
      [] class = "Permission-unknown" /\ protocol = "A" ->
            "boot with lockdown=none, Secure Boot, check /proc/sys/kernel/kexec_load_disabled"
      [] class = "Permission-unknown" /\ protocol = "B" ->
            "check /proc/sys/kernel/kexec_load_disabled"
      [] OTHER -> ""

\* An error that is no classified load error.
PlainError(what) == [class |-> what, errno |-> 0]

\* The retry made after any failure of the first call.
ShouldRetryAnyFailure(errno) == errno # 0

\* part_004 line 111: if errno == unix.EPERM, call again.
ShouldRetry(errno) == errno = EPERM

\* The check letting every errno but EPERM through to the restart.
LoadFailedOnlyEperm(errno) == errno = EPERM

\* part_004 line 125 and part_000 line 562: if errno != 0, return the error.
LoadFailed(errno) == errno # 0

\* Both parts joined whether empty or not.
cmdlinePartsBoth(img, extra) == <<img, extra>>

\* part_004 lines 71-77 and part_000 lines 495-501: the parts that are not
\* empty, the image's cmdline first.
cmdlineParts(img, extra) ==
    (IF img # <<>> THEN <<img>> ELSE <<>>) \o (IF extra # <<>> THEN <<extra>> ELSE <<>>)

\* part_004 lines 78-91: strings.Join(cmdlineParts, " "), then a null
\* terminator if the result is not empty.
cmdlineBytesA(img, extra) ==
    LET cmdline == Join(cmdlineParts(img, extra), <<32>>)
    IN  IF Len(cmdline) > 0 THEN Append(cmdline, 0) ELSE cmdline

\* part_000 lines 502-503: strings.Join(cmdlineParts, " ") + "\x00"
cmdlineBytesB(img, extra) == Append(Join(cmdlineParts(img, extra), <<32>>), 0)

\* part_000 lines 492-493: TrimRight of the null bytes, then TrimSpace.
ukiCmdline(ukiCmdlineBytes) == TrimSpace(TrimRightNul(ukiCmdlineBytes))

\* The values of assets.Cmdline: the sources trim what they read from the
\* image the same way (container.go lines 172-173).
AssetCmdlines == {ukiCmdline(b) : b \in {<<>>, <<97>>, <<97, 32, 98, 10, 0>>}}

\* The contents of a .cmdline section.
SectionCmdlines == {<<>>, <<0, 0>>, <<32, 0>>, <<97>>, <<97, 10, 0, 0>>, <<32, 97, 32, 98, 32, 0>>}

\* strings.Join(extraArgs, " ") of part_004 line 216, for no argument, one
\* and two.
ExtraCmdlines == {Join(a, <<32>>) : a \in {<<>>, << <<99>> >>, << <<99>>, <<100>> >>}}

Syscall(name, flags, errno) == [name |-> name, flags |-> flags, errno |-> errno]

KexecInit ==
    /\ HttpIdle
    /\ ExtractIdle
    /\ RunIdle
    /\ EntriesIdle
    /\ MountsIdle
    /\ LoadOptionIdle
    /\ CmdlineIdle
    /\ CloserIdle
    /\ CodecIdle
    /\ FsIdle
    /\ PromoteIdle
    /\ StoreIdle
    /\ UkiIdle
    /\ proto \in {"A", "B"}
    /\ kpc = IF proto = "A" THEN "A_stageKernel" ELSE "B_extract"
    /\ syscalls = <<>>
    /\ memfds = {}
    /\ kerr = NotReturned
    /\ lockdown \in {"", "none", "integrity", "confidentiality"}
    /\ sysctl \in {"", "0", "1"}
    /\ cmdlineIn \in (IF proto = "A" THEN AssetCmdlines ELSE SectionCmdlines)
    /\ extraCmdline \in ExtraCmdlines
    /\ imgCmdline = <<>>
    /\ loadCmdline = <<>>

\* A return that runs no deferred call.
DeferredCloseNone(fds) == fds

\* part_004 lines 61 and 68: defer kernelFile.Close(), defer
\* initrdFile.Close(), run when the function returns.
DeferredClose(fds) == fds \ {"kernel", "initramfs"}

\* The call returns err: the deferred Close calls release the staged files.
KexecReturnFrom(err, fds) ==
    /\ kerr' = err
    /\ memfds' = DeferredClose(fds)
    /\ kpc' = "returned"

KexecReturn(err) == KexecReturnFrom(err, memfds)

\* func CreateMemfdFromReader(name, reader): memfd_create, io.Copy, Seek.
\* outcome: the errno of memfd_create, then "copyfail", "seekfail" or "ok".
StageMemfd(name, next) ==
    \E errno \in {0, 12}, outcome \in {"ok", "copyfail", "seekfail"} :
        /\ syscalls' = Append(syscalls, Syscall("memfd_create", MFD_CLOEXEC, errno))
        /\ LET created == IF errno = 0 THEN memfds \cup {name} ELSE memfds
               \* lines 39-47: file.Close() when io.Copy or Seek fails
               kept == IF errno = 0 /\ outcome # "ok" THEN created \ {name} ELSE created
           IN  IF errno = 0 /\ outcome = "ok"
               THEN /\ memfds' = kept
                    /\ kpc' = next
                    /\ UNCHANGED kerr
               ELSE KexecReturnFrom(PlainError("memfd-" \o name), kept)

\* part_004 lines 56-61
A_StageKernel ==
    /\ kpc = "A_stageKernel"
    /\ StageMemfd("kernel", "A_stageInitrd")
    /\ UNCHANGED <<kexecInputs, imgCmdline, loadCmdline, notKexecVars>>

\* part_004 lines 63-69
A_StageInitrd ==
    /\ kpc = "A_stageInitrd"
    /\ StageMemfd("initramfs", "A_load")
    /\ UNCHANGED <<kexecInputs, imgCmdline, loadCmdline, notKexecVars>>

\* part_004 lines 98-127: kexec_file_load with flags 0; on EPERM go on to the
\* second call, on another failure return handleKexecError(errno).
A_Load ==
    /\ kpc = "A_load"
    /\ imgCmdline' = cmdlineIn
    /\ loadCmdline' = cmdlineBytesA(cmdlineIn, extraCmdline)
    /\ \E errno \in ErrnoSamples :
        /\ syscalls' = Append(syscalls, Syscall("kexec_file_load", 0, errno))
        /\ IF ShouldRetry(errno)
           THEN kpc' = "A_retry" /\ UNCHANGED <<kerr, memfds>>
           ELSE IF LoadFailed(errno)
           THEN KexecReturn(handleKexecError(errno, lockdown, sysctl))
           ELSE kpc' = "reboot" /\ UNCHANGED <<kerr, memfds>>
    /\ UNCHANGED <<kexecInputs, notKexecVars>>

\* part_004 lines 111-127: the second kexec_file_load, with
\* KEXEC_FILE_LOAD_UNSAFE; a failure returns handleKexecError(errno).
A_Retry ==
    /\ kpc = "A_retry"
    /\ \E errno \in ErrnoSamples :
        /\ syscalls' = Append(syscalls, Syscall("kexec_file_load", KEXEC_FILE_LOAD_UNSAFE, errno))
        /\ IF LoadFailed(errno)
           THEN KexecReturn(handleKexecError(errno, lockdown, sysctl))
           ELSE kpc' = "reboot" /\ UNCHANGED <<kerr, memfds>>
    /\ UNCHANGED <<kexecInputs, imgCmdline, loadCmdline, notKexecVars>>

\* part_000 lines 466-471: ExtractUKI, which may fail.
B_Extract ==
    /\ kpc = "B_extract"
    /\ \E ok \in BOOLEAN :
        IF ok THEN kpc' = "B_read" /\ UNCHANGED <<kerr, memfds>>
        ELSE KexecReturn(PlainError("extract"))
    /\ UNCHANGED <<syscalls, kexecInputs, imgCmdline, loadCmdline, notKexecVars>>

\* part_000 lines 473-540: io.ReadAll of the three sections, any of which may
\* fail; &kernelData[0] and &initrdData[0] panic on an empty payload.
B_Read ==
    /\ kpc = "B_read"
    /\ \E outcome \in {"ok", "readfail", "empty"} :
        CASE outcome = "ok" ->
                /\ kpc' = "B_load"
                /\ imgCmdline' = ukiCmdline(cmdlineIn)
                /\ loadCmdline' = cmdlineBytesB(ukiCmdline(cmdlineIn), extraCmdline)
                /\ UNCHANGED <<kerr, memfds>>
          [] outcome = "readfail" ->
                KexecReturn(PlainError("read")) /\ UNCHANGED <<imgCmdline, loadCmdline>>
          [] outcome = "empty" ->
                /\ kpc' = "panicked"
                /\ kerr' = PlainError("panic")
                /\ imgCmdline' = ukiCmdline(cmdlineIn)
                /\ loadCmdline' = cmdlineBytesB(ukiCmdline(cmdlineIn), extraCmdline)
                /\ UNCHANGED memfds
    /\ UNCHANGED <<syscalls, kexecInputs, notKexecVars>>

\* part_000 lines 542-587: kexec_load; a failure returns the classified error.
B_Load ==
    /\ kpc = "B_load"
    /\ \E errno \in ErrnoSamples :
        /\ syscalls' = Append(syscalls, Syscall("kexec_load", KEXEC_ARCH_X86_64, errno))
        /\ IF LoadFailed(errno)
           THEN KexecReturn(kexecLoadError(errno, lockdown, sysctl))
           ELSE kpc' = "reboot" /\ UNCHANGED <<kerr, memfds>>
    /\ UNCHANGED <<kexecInputs, imgCmdline, loadCmdline, notKexecVars>>

\* part_004 lines 131-149 and part_000 lines 591-610: reboot with
\* LINUX_REBOOT_CMD_KEXEC, which does not return when it succeeds.
Reboot ==
    /\ kpc = "reboot"
    /\ \E errno2 \in {0, EPERM, EINVAL} :
        /\ syscalls' = Append(syscalls, Syscall("reboot", LINUX_REBOOT_CMD_KEXEC, errno2))
        /\ IF errno2 # 0
           THEN KexecReturn(PlainError("reboot"))
           ELSE kpc' = "rebooted" /\ UNCHANGED <<kerr, memfds>>
    /\ UNCHANGED <<kexecInputs, imgCmdline, loadCmdline, notKexecVars>>

KexecNext ==
    \/ A_StageKernel
    \/ A_StageInitrd
    \/ A_Load
    \/ A_Retry
    \/ B_Extract
    \/ B_Read
    \/ B_Load
    \/ Reboot

SpecKexec == KexecInit /\ [][KexecNext]_vars

(***************************************************************************)
(* Claims about the kexec loaders.                                         *)
(***************************************************************************)
IsLoad(c) == c.name \in {"kexec_file_load", "kexec_load"}

\* The load system calls issued so far, in order.
Loads == SelectSeq(syscalls, IsLoad)

\* The call is over: it returned, the machine restarted, or it panicked.
KexecOver == kpc \in {"returned", "rebooted", "panicked"}

\* What C1 says of Protocol A: at most two kexec_file_load calls; a second
\* one if and only if the first returned EPERM; the second carries the
\* unsafe flag; no third, whatever the second returns.
C1_ProtocolA ==
    proto = "A" =>
        /\ Len(Loads) <= 2
        /\ \A k \in 1..Len(Loads) : Loads[k].name = "kexec_file_load"
        /\ Len(Loads) >= 1 => Loads[1].flags = 0
        /\ Len(Loads) = 2 => (Loads[1].errno = EPERM /\ Loads[2].flags = KEXEC_FILE_LOAD_UNSAFE)
        /\ (Len(Loads) >= 1 /\ Loads[1].errno = EPERM /\ kpc # "A_retry") => Len(Loads) = 2

C1_WitnessB ==
    /\ proto = "B"
    /\ kpc = "returned"
    /\ Len(Loads) = 1
    /\ Loads[1].errno = EPERM

\* C2: the restart system call is issued only after a load system call of the
\* same call returned success, it is the next system call issued after that
\* success, and it is never issued on a path where the last load failed: on
\* such a path the call returns a non-nil error.
C2_RebootOnlyAfterLoad ==
    /\ \A k \in 1..Len(syscalls) :
          syscalls[k].name = "reboot" =>
              syscalls[k].flags = LINUX_REBOOT_CMD_KEXEC /\ k > 1 /\ IsLoad(syscalls[k - 1]) /\ syscalls[k - 1].errno = 0
    /\ \A k \in 1..Len(syscalls) :
          (IsLoad(syscalls[k]) /\ syscalls[k].errno = 0) =>
              IF k < Len(syscalls) THEN syscalls[k + 1].name = "reboot" ELSE kpc = "reboot"
    /\ (Len(Loads) >= 1 /\ Loads[Len(Loads)].errno # 0 /\ KexecOver) =>
          /\ kpc = "returned"
          /\ kerr.class \notin {"", "reboot"}
          /\ \A k \in 1..Len(syscalls) : syscalls[k].name # "reboot"

\* The restart was issued right after the second kexec_file_load succeeded.
C2_Witness ==
    /\ proto = "A"
    /\ kpc = "rebooted"
    /\ Len(Loads) = 2
    /\ Loads[2].errno = 0
    /\ syscalls[Len(syscalls)].name = "reboot"
    /\ syscalls[Len(syscalls) - 1] = Loads[2]

\* A call whose only load failed returned an error, no restart issued.
C2_WitnessFailed ==
    /\ kpc = "returned"
    /\ Len(Loads) = 1
    /\ Loads[1].errno = ENOSYS
    /\ kerr.class = "Unsupported"

\* The class C17 gives to a failed load's errno under a protocol.
ClaimedClass(errno, protocol) ==
    CASE errno = ENOSYS -> {"Unsupported"}
      [] errno = EPERM -> {"Permission-lockdown", "Permission-sysctl", "Permission-unknown"}
      [] errno = EBUSY -> {"Busy"}
      [] errno = EKEYREJECTED -> {"SignatureRejected"}
      [] errno = ENOTSUP -> {"NotSupported"}
      [] errno = EINVAL /\ protocol = "B" -> {"InvalidArgument"}
      [] OTHER -> {"UnknownSyscall"}

\* C17: under both protocols a failed load is classified by its errno: ENOSYS
\* Unsupported, EPERM Permission, EBUSY Busy, EKEYREJECTED (129)
\* SignatureRejected, ENOTSUP (95) NotSupported, EINVAL InvalidArgument under
\* Protocol B only, every other errno UnknownSyscall carrying the raw errno.
C17_ClassifiedByErrno ==
    (kpc = "returned" /\ Len(Loads) >= 1 /\ Loads[Len(Loads)].errno # 0) =>
        /\ kerr.class \in ClaimedClass(Loads[Len(Loads)].errno, proto)
        /\ kerr.errno = Loads[Len(Loads)].errno

\* The command line in loadCmdline: the bytes before the null terminator.
HandedCmdline ==
    IF loadCmdline # <<>> /\ loadCmdline[Len(loadCmdline)] = 0
    THEN SubSeq(loadCmdline, 1, Len(loadCmdline) - 1)
    ELSE loadCmdline

\* C24: the command line handed to the load call is the image's cmdline,
\* one space, then the caller's extra arguments when neither is empty; when
\* one of them is empty it is the other alone, with no space put before or
\* after it; the image's cmdline never follows the extras.
C24_CmdlineJoined ==
    Len(Loads) >= 1 =>
        /\ (imgCmdline # <<>> /\ extraCmdline # <<>>) =>
                HandedCmdline = imgCmdline \o <<32>> \o extraCmdline
        /\ imgCmdline = <<>> => HandedCmdline = extraCmdline
        /\ extraCmdline = <<>> => HandedCmdline = imgCmdline

\* Protocol A loaded with a cmdline made of both parts.
C24_Witness ==
    /\ proto = "A"
    /\ Len(Loads) >= 1
    /\ imgCmdline = <<97, 32, 98>>
    /\ extraCmdline = <<99, 32, 100>>
    /\ loadCmdline = <<97, 32, 98, 32, 99, 32, 100, 0>>

\* Protocol B loaded from an image whose cmdline section is all padding.
C24_WitnessEmptyImage ==
    /\ proto = "B"
    /\ Len(Loads) >= 1
    /\ cmdlineIn = <<0, 0>>
    /\ extraCmdline = <<99>>
    /\ loadCmdline = <<99, 0>>

\* The memfd_create calls that gave a file.
Created == SelectSeq(syscalls, LAMBDA c : c.name = "memfd_create" /\ c.errno = 0)

\* C27: whenever the Protocol A loader has returned to its caller (after a
\* failed staging of the kernel or of the initrd, a failed load or a failed
\* restart), no file it staged in memory is still open.
C27_StagedFilesClosed ==
    (proto = "A" /\ kpc = "returned") => memfds = {}

\* Both files were staged, the load failed and the loader returned.
C27_Witness ==
    /\ proto = "A"
    /\ kpc = "returned"
    /\ Len(Created) = 2
    /\ Len(Loads) >= 1
    /\ kerr.class \notin {"", "reboot"}
    /\ memfds = {}

\* The kernel was staged and the staging of the initrd failed.
C27_WitnessInitrdFailed ==
    /\ proto = "A"
    /\ kpc = "returned"
    /\ Len(Created) = 1
    /\ kerr.class = "memfd-initramfs"
    /\ memfds = {}

\* The last load of the call failed with EPERM and the call returned.
DeniedLoad ==
    /\ kpc = "returned"
    /\ Len(Loads) >= 1
    /\ Loads[Len(Loads)].errno = EPERM

\* C23: a load denied with EPERM is diagnosed with a fixed precedence: the
\* lockdown variant when the lockdown status shows integrity or
\* confidentiality selected, whatever the sysctl reads; otherwise the
\* administrative-disable variant when the sysctl reads 1; otherwise the
\* unknown-denied variant.  One variant is produced and it carries a
\* remediation hint.
C23_DeniedPrecedence ==
    DeniedLoad =>
        /\ kerr.class =
              IF lockdown \in {"integrity", "confidentiality"} THEN "Permission-lockdown"
              ELSE IF sysctl = "1" THEN "Permission-sysctl"
              ELSE "Permission-unknown"
        /\ RemediationHint(proto, kerr.class) # ""

\* A denied load under lockdown with the sysctl at 1 too: the lockdown
\* variant wins.
C23_Witness ==
    /\ DeniedLoad
    /\ lockdown = "integrity"
    /\ sysctl = "1"
    /\ kerr.class = "Permission-lockdown"

\* A denied load without lockdown and with the sysctl at 1.
C23_WitnessSysctl ==
    /\ DeniedLoad
    /\ lockdown = "none"
    /\ sysctl = "1"
    /\ kerr.class = "Permission-sysctl"

(***************************************************************************)
(* uki.Extract (internal/uki) and the readers it returns.                  *)
(* A section is [Name, payload, pad, VirtualSize]: its raw data in the     *)
(* file is payload \o pad, Size bytes long.                                *)
(***************************************************************************)
SectionLinux == ".linux"
SectionInitrd == ".initrd"
SectionCmdline == ".cmdline"

\* The keys of sectionMap.
RequiredSections == {SectionInitrd, SectionCmdline, SectionLinux}

Min(a, b) == IF a < b THEN a ELSE b

\* The raw data of a section, as section.Open() reads it.
RawData(section) == section.payload \o section.pad

\* section.Size (SizeOfRawData)
Size(section) == Len(RawData(section))

\* The bound of the reader taken from the raw size.
LimitOfRawSize(section) == Size(section)

\* int64(section.VirtualSize), the bound of io.LimitReader
LimitOf(section) == section.VirtualSize

\* A reader not yet bound (*reader == nil).
NilReader == [bound |-> FALSE, data |-> <<>>, off |-> 0, N |-> 0]

\* io.LimitReader(section.Open(), int64(section.VirtualSize))
LimitReader(section) ==
    [bound |-> TRUE, data |-> RawData(section), off |-> 0, N |-> LimitOf(section)]

\* The loop over peFile.Sections: the first section of each required name
\* binds its reader, later ones of that name are ignored.
RECURSIVE BindSections(_, _, _)
BindSections(sections, k, readers) ==
    IF k > Len(sections) THEN readers
    ELSE LET section == sections[k]
             hit == section.Name \in DOMAIN readers /\ ~readers[section.Name].bound
         IN BindSections(sections, k + 1,
                IF hit THEN [readers EXCEPT ![section.Name] = LimitReader(section)]
                ELSE readers)

\* The names whose reader is still nil after the loop.
MissingSections(readers) == {name \in DOMAIN readers : ~readers[name].bound}

\* (*io.LimitedReader).Read over (*io.SectionReader).Read with a buffer of k
\* bytes: [n, data, eof, reader].
ReaderRead(reader, k) ==
    IF reader.N <= 0 THEN [data |-> <<>>, eof |-> TRUE, reader |-> reader]
    ELSE IF reader.off >= Len(reader.data) THEN [data |-> <<>>, eof |-> TRUE, reader |-> reader]
    ELSE LET n == Min(Min(k, reader.N), Len(reader.data) - reader.off)
         IN [data |-> SubSeq(reader.data, reader.off + 1, reader.off + n),
             eof |-> FALSE,
             reader |-> [reader EXCEPT !.off = reader.off + n, !.N = reader.N - n]]

\* CreateMinimalPEFile, part_006 line 75: rawSize aligned up, here to a
\* multiple of FileAlignment bytes where the builder uses 512.
FileAlignment == 4
AlignUp(n) == ((n + FileAlignment - 1) \div FileAlignment) * FileAlignment

Zeros(n) == [i \in 1..n |-> 0]

\* The payload of n bytes given to the section tagged t: no byte of it is 0,
\* and payloads of different tags differ in every byte.
Payload(t, n) == [i \in 1..n |-> 16 * t + i]

\* The ways a section's raw data extends past its payload: as
\* CreateMinimalPEFile pads it, not at all, by one byte that is not zero; and
\* "short", a section whose VirtualSize exceeds its raw size.
PadModes == {"aligned", "none", "garbage", "short"}

Section(name, payload, mode) ==
    [Name |-> name,
     payload |-> payload,
     pad |-> CASE mode = "aligned" -> Zeros(AlignUp(Len(payload)) - Len(payload))
               [] mode = "garbage" -> <<255>>
               [] OTHER -> <<>>,
     VirtualSize |-> IF mode = "short" THEN Len(payload) + 1 ELSE Len(payload)]

\* The section tables: the three sections in two orders, with another
\* section between, with a second .linux section, with one, two or all three
\* missing.
Layouts ==
    { <<SectionLinux, SectionInitrd, SectionCmdline>>,
      <<SectionCmdline, ".text", SectionInitrd, SectionLinux>>,
      <<SectionLinux, SectionLinux, SectionInitrd, SectionCmdline>>,
      <<SectionLinux, SectionInitrd>>,
      <<SectionInitrd>>,
      <<".text">> }

Tag(name) ==
    CASE name = SectionLinux -> 1
      [] name = SectionInitrd -> 2
      [] name = SectionCmdline -> 3
      [] OTHER -> 4

\* The image with this layout; a section's payload has lens[its name] bytes,
\* a repeated section carries another payload.
Image(layout, lens, mode) ==
    [k \in 1..Len(layout) |->
        LET name == layout[k]
            repeated == \E j \in 1..(k - 1) : layout[j] = name
        IN Section(name,
                   IF repeated THEN Payload(5, 1)
                   ELSE Payload(Tag(name), IF name \in RequiredSections THEN lens[name] ELSE 1),
                   mode)]

UkiInit ==
    /\ HttpIdle
    /\ ExtractIdle
    /\ RunIdle
    /\ EntriesIdle
    /\ MountsIdle
    /\ LoadOptionIdle
    /\ CmdlineIdle
    /\ CloserIdle
    /\ CodecIdle
    /\ FsIdle
    /\ PromoteIdle
    /\ StoreIdle
    /\ KexecIdle
    /\ upc = "extract"
    /\ \E layout \in Layouts, mode \in PadModes,
          lens \in [RequiredSections -> 0..MaxPayloadLen] :
            image = Image(layout, lens, mode)
    /\ peOpen = FALSE
    /\ assets = [name \in RequiredSections |-> NilReader]
    /\ delivered = [name \in RequiredSections |-> <<>>]
    /\ eof = [name \in RequiredSections |-> ""]
    /\ uerr = ""

\* errors.Newf("%s not found in PE file", name)
NotFoundError(name) == name \o " not found in PE file"

\* The handle left open where the missing-section return should close it.
peFileCloseSkipped(open) == open

\* peFile.Close()
peFileClose(open) == FALSE

\* func Extract(ukiPath string) (*AssetInfo, error)
UkiExtract ==
    /\ upc = "extract"
    /\ \E opened \in BOOLEAN :
        IF ~opened
        THEN /\ uerr' = "failed to open PE file"
             /\ upc' = "failed"
             /\ UNCHANGED <<peOpen, assets>>
        ELSE LET readers == BindSections(image, 1, assets)
             IN IF MissingSections(readers) # {}
                THEN \E name \in MissingSections(readers) :
                        /\ uerr' = NotFoundError(name)
                        /\ peOpen' = peFileClose(TRUE)
                        /\ upc' = "failed"
                        /\ UNCHANGED assets
                ELSE /\ assets' = readers
                     /\ peOpen' = TRUE
                     /\ uerr' = ""
                     /\ upc' = "extracted"
    /\ UNCHANGED <<image, delivered, eof, notUkiVars>>

\* One Read call of io.ReadAll on one of the three readers.
UkiRead(name) ==
    /\ upc \in {"extracted", "closed"}
    /\ eof[name] = ""
    /\ IF ~peOpen
       THEN /\ eof' = [eof EXCEPT ![name] = "err"]
            /\ UNCHANGED <<assets, delivered>>
       ELSE \E k \in 1..MaxChunk :
            LET r == ReaderRead(assets[name], k)
            IN /\ assets' = [assets EXCEPT ![name] = r.reader]
               /\ delivered' = [delivered EXCEPT ![name] = @ \o r.data]
               /\ eof' = [eof EXCEPT ![name] = IF r.eof THEN "EOF" ELSE ""]
    /\ UNCHANGED <<upc, image, peOpen, uerr, notUkiVars>>

\* assets.Close()
UkiClose ==
    /\ upc = "extracted"
    /\ peOpen' = peFileClose(peOpen)
    /\ upc' = "closed"
    /\ UNCHANGED <<image, assets, delivered, eof, uerr, notUkiVars>>

UkiNext ==
    \/ UkiExtract
    \/ \E name \in RequiredSections : UkiRead(name)
    \/ UkiClose

SpecUki == UkiInit /\ [][UkiNext]_vars

(***************************************************************************)
(* Claims about uki.Extract.                                               *)
(***************************************************************************)
\* The first section of the image with this name.
FirstNamed(name) ==
    image[CHOOSE k \in 1..Len(image) :
            /\ image[k].Name = name
            /\ \A j \in 1..(k - 1) : image[j].Name # name]

\* The image has the three sections, each with its payload in the file.
WellFormedImage ==
    /\ \A name \in RequiredSections : \E k \in 1..Len(image) : image[k].Name = name
    /\ \A k \in 1..Len(image) : image[k].VirtualSize = Len(image[k].payload)

IsPrefix(p, q) == Len(p) <= Len(q) /\ SubSeq(q, 1, Len(p)) = p

\* C10: for a well-formed image with the three required sections, each
\* reader returned by Extract delivers exactly the payload of its section, its
\* first VirtualSize bytes, and then end of stream: no padding byte is
\* delivered, whatever the raw size of the section.
C10_StreamsYieldPayload ==
    (WellFormedImage /\ upc \in {"extracted", "closed"}) =>
        \A name \in RequiredSections :
            /\ IsPrefix(delivered[name], FirstNamed(name).payload)
            /\ eof[name] = "EOF" => delivered[name] = FirstNamed(name).payload

\* The required sections the image does not have.
AbsentSections ==
    {name \in RequiredSections : \A k \in 1..Len(image) : image[k].Name # name}

\* Extract returned its missing-section error.
MissingSectionFailure == upc = "failed" /\ uerr # "failed to open PE file"

\* C11: when Extract fails because required sections are absent, the error
\* names every absent section: one for an image missing one section, all
\* three for an image with none of them.
C11_ErrorNamesEveryAbsent ==
    MissingSectionFailure => \A name \in AbsentSections : uerr = NotFoundError(name)

\* C12: Extract returns either the three readers all bound, or an error with
\* no reader and with the file handle closed; never a partly bound triple,
\* never an open file after a failure.
C12_ExtractAtomic ==
    /\ upc \in {"extracted", "closed"} =>
          uerr = "" /\ \A name \in RequiredSections : assets[name].bound
    /\ upc = "failed" =>
          /\ uerr # ""
          /\ ~peOpen
          /\ \A name \in RequiredSections : ~assets[name].bound

\* Extract failed on an image that has two of the three sections.
C12_Witness ==
    /\ MissingSectionFailure
    /\ AbsentSections = {SectionCmdline}
    /\ ~peOpen

\* All three readers were read to end of stream, from sections that carry
\* padding after payloads of full length.
C10_Witness ==
    /\ WellFormedImage
    /\ upc = "extracted"
    /\ \A name \in RequiredSections :
        /\ eof[name] = "EOF"
        /\ Len(delivered[name]) = MaxPayloadLen
        /\ FirstNamed(name).pad # <<>>

(***************************************************************************)
(* sharedCloser and readerCloser (internal/types/types.go), as                *)
(* ContainerSource.GetBootAssets builds them: the Kernel and Initrd views  *)
(* read sections of one PE file and share one sharedCloser over it.        *)
(* Threads call Close on the views; s.once.Do is sync.Once.Do: a load of   *)
(* done, then under the mutex a second load, f(), and the store of done.   *)
(***************************************************************************)
Threads == 1..MaxThreads

\* BootAssets.Kernel and BootAssets.Initrd
Views == {"Kernel", "Initrd"}

\* A once that never counts as done: f runs on every call.
OnceNeverDone(done) == FALSE

\* o.done.Load() != 0
OnceIsDone(done) == done # 0

CloserInit ==
    /\ HttpIdle
    /\ ExtractIdle
    /\ RunIdle
    /\ EntriesIdle
    /\ MountsIdle
    /\ LoadOptionIdle
    /\ CmdlineIdle
    /\ CodecIdle
    /\ FsIdle
    /\ PromoteIdle
    /\ StoreIdle
    /\ KexecIdle
    /\ UkiIdle
    /\ tpc = [t \in Threads |-> "idle"]
    /\ tview = [t \in Threads |-> "Kernel"]
    /\ tcalls = [t \in Threads |-> 0]
    /\ onceDone = 0
    /\ onceM = 0
    /\ closeCount = 0
    /\ returned = 0
    /\ vstate = [v \in Views |-> "open"]
    /\ vleft \in [Views -> 0..MaxViewLen]
    /\ vread = [v \in Views |-> ""]

\* func (r *readerCloser) Close() error: r.closer.Close(), which enters
\* s.once.Do and loads done.
CloseCall(t, v) ==
    /\ tpc[t] = "idle"
    /\ tcalls[t] < MaxCloseCalls
    /\ tcalls' = [tcalls EXCEPT ![t] = @ + 1]
    /\ tview' = [tview EXCEPT ![t] = v]
    /\ vstate' = [vstate EXCEPT ![v] = IF @ = "open" THEN "closing" ELSE @]
    /\ tpc' = [tpc EXCEPT ![t] = IF OnceIsDone(onceDone) THEN "return" ELSE "lock"]
    /\ UNCHANGED <<onceDone, onceM, closeCount, returned, vleft, vread, notCloserVars>>

\* doSlow: o.m.Lock()
OnceLock(t) ==
    /\ tpc[t] = "lock"
    /\ onceM = 0
    /\ onceM' = t
    /\ tpc' = [tpc EXCEPT ![t] = "slow"]
    /\ UNCHANGED <<tview, tcalls, onceDone, closeCount, returned, vstate, vleft, vread, notCloserVars>>

\* doSlow: if o.done.Load() == 0 { f() }, f being s.err = s.closer.Close()
OnceRun(t) ==
    /\ tpc[t] = "slow"
    /\ closeCount' = IF OnceIsDone(onceDone) THEN closeCount ELSE closeCount + 1
    /\ tpc' = [tpc EXCEPT ![t] = "unlock"]
    /\ UNCHANGED <<tview, tcalls, onceDone, onceM, returned, vstate, vleft, vread, notCloserVars>>

\* doSlow's deferred o.done.Store(1) and o.m.Unlock()
OnceUnlock(t) ==
    /\ tpc[t] = "unlock"
    /\ onceDone' = 1
    /\ onceM' = 0
    /\ tpc' = [tpc EXCEPT ![t] = "return"]
    /\ UNCHANGED <<tview, tcalls, closeCount, returned, vstate, vleft, vread, notCloserVars>>

\* return s.err
CloseReturn(t) ==
    /\ tpc[t] = "return"
    /\ returned' = returned + 1
    /\ vstate' = [vstate EXCEPT ![tview[t]] = "closed"]
    /\ tpc' = [tpc EXCEPT ![t] = "idle"]
    /\ UNCHANGED <<tview, tcalls, onceDone, onceM, closeCount, vleft, vread, notCloserVars>>

\* func (r *readerCloser) Read(p []byte): one Read of the section through the
\* PE file, which fails once the file is closed.
ViewRead(v) ==
    /\ vread[v] = ""
    /\ IF closeCount > 0
       THEN vread' = [vread EXCEPT ![v] = "err"] /\ UNCHANGED vleft
       ELSE IF vleft[v] = 0
       THEN vread' = [vread EXCEPT ![v] = "EOF"] /\ UNCHANGED vleft
       ELSE vleft' = [vleft EXCEPT ![v] = @ - 1] /\ UNCHANGED vread
    /\ UNCHANGED <<tpc, tview, tcalls, onceDone, onceM, closeCount, returned, vstate, notCloserVars>>

CloserNext ==
    \/ \E t \in Threads, v \in Views : CloseCall(t, v)
    \/ \E t \in Threads : OnceLock(t)
    \/ \E t \in Threads : OnceRun(t)
    \/ \E t \in Threads : OnceUnlock(t)
    \/ \E t \in Threads : CloseReturn(t)
    \/ \E v \in Views : ViewRead(v)

SpecCloser == CloserInit /\ [][CloserNext]_vars

(***************************************************************************)
(* Claims about sharedCloser.                                              *)
(***************************************************************************)
\* C13: for any number of views sharing one closer and any sequence or
\* interleaving of Close calls on them, repeated ones included, the
\* underlying Close is invoked exactly once, by the first Close call, and
\* never again: never twice, and it has been invoked before any call returns.
C13_ClosedExactlyOnce ==
    /\ closeCount <= 1
    /\ returned >= 1 => closeCount = 1

\* Both threads made all their Close calls, on both views.
C13_Witness ==
    /\ returned = MaxThreads * MaxCloseCalls
    /\ \A v \in Views : vstate[v] = "closed"
    /\ closeCount = 1

\* C14: closing one of the views does not close the file under the others:
\* after Close on one view, a view nobody has closed can still be read to its
\* end.
C14_OthersStillReadable ==
    \A v \in Views :
        (vstate[v] = "open" /\ \E w \in Views \ {v} : vstate[w] = "closed") =>
            vread[v] # "err"

(***************************************************************************)
(* uki.ReadCmdline and uki.PatchCmdline (unnamed/part_009).  The file is   *)
(* its section table and the bytes of its section data, each section's raw *)
(* data at its Offset, counted from the start of the data.                 *)
(***************************************************************************)
RECURSIVE FlatBytes(_)
FlatBytes(secs) ==
    IF secs = <<>> THEN <<>> ELSE RawData(Head(secs)) \o FlatBytes(Tail(secs))

\* The section headers of a file holding these sections one after another.
SectionTable(secs) ==
    [k \in 1..Len(secs) |->
        [Name |-> secs[k].Name,
         Offset |-> Len(FlatBytes(SubSeq(secs, 1, k - 1))),
         Size |-> Size(secs[k]),
         VirtualSize |-> secs[k].VirtualSize]]

\* The first section named .cmdline, 0 if there is none.
FindCmdline(table) ==
    IF \E k \in 1..Len(table) : table[k].Name = SectionCmdline
    THEN CHOOSE k \in 1..Len(table) :
            /\ table[k].Name = SectionCmdline
            /\ \A j \in 1..(k - 1) : table[j].Name # SectionCmdline
    ELSE 0

\* What a reader of n bytes at offset gets from the file.
ReadAt(bytes, offset, n) ==
    IF offset >= Len(bytes) THEN <<>>
    ELSE SubSeq(bytes, offset + 1, Min(offset + n, Len(bytes)))

\* file.Seek(offset, 0) and file.Write(data)
WriteAt(bytes, offset, data) ==
    LET end == offset + Len(data)
        len == IF end > Len(bytes) THEN end ELSE Len(bytes)
    IN [i \in 1..len |->
            IF i > offset /\ i <= end THEN data[i - offset]
            ELSE IF i <= Len(bytes) THEN bytes[i] ELSE 0]

\* func ReadCmdline(ukiPath string) (string, error)
ReadCmdline(bytes, table) ==
    LET k == FindCmdline(table)
    IN IF k = 0 THEN [err |-> ".cmdline section not found in PE file", value |-> <<>>]
       ELSE [err |-> "",
             value |-> TrimRightNul(
                 ReadAt(bytes, table[k].Offset, Min(table[k].VirtualSize, table[k].Size)))]

\* maxSize := int(cmdlineSection.Size), or VirtualSize if that is 0
MaxSize(section) == IF section.Size = 0 THEN section.VirtualSize ELSE section.Size

\* The length check left out.
TooLongNever(n, maxSize) == FALSE

\* if len(newCmdline) > maxSize
TooLong(n, maxSize) == n > maxSize

\* data := make([]byte, maxSize); copy(data, newCmdline)
PatchData(new, maxSize) ==
    [i \in 1..maxSize |-> IF i <= Len(new) THEN new[i] ELSE 0]

\* The I/O failures of PatchCmdline: os.OpenFile, file.Seek, file.Write.
PatchFaults == {"none", "openfail", "seekfail", "writefail"}

\* func PatchCmdline(ukiPath, newCmdline string) error: [err, bytes].
\* A failed Write has written the first written bytes of data.
PatchCmdline(bytes, table, new, fault, written) ==
    LET k == FindCmdline(table)
        maxSize == MaxSize(table[k])
        data == PatchData(new, maxSize)
    IN IF k = 0 THEN [err |-> ".cmdline section not found in PE file", bytes |-> bytes]
       ELSE IF TooLong(Len(new), maxSize) THEN [err |-> "new cmdline too long", bytes |-> bytes]
       ELSE IF fault = "openfail" THEN [err |-> "open file for writing", bytes |-> bytes]
       ELSE IF fault = "seekfail" THEN [err |-> "seek to .cmdline", bytes |-> bytes]
       ELSE IF fault = "writefail" /\ maxSize > 0
       THEN [err |-> "write .cmdline",
             bytes |-> WriteAt(bytes, table[k].Offset, SubSeq(data, 1, Min(written, maxSize - 1)))]
       ELSE [err |-> "", bytes |-> WriteAt(bytes, table[k].Offset, data)]

\* The bytes of a cmdline: a letter and NUL.
CmdlineSamples == SeqsUpTo({0, 97}, MaxCmdlineLen)

\* Files with .cmdline first, last, and absent.
CmdlineLayouts ==
    { <<SectionCmdline, SectionLinux>>,
      <<SectionLinux, SectionCmdline>>,
      <<SectionLinux>> }

CmdlineFile(layout, cmdline, mode) ==
    [k \in 1..Len(layout) |->
        Section(layout[k],
                IF layout[k] = SectionCmdline THEN cmdline ELSE Payload(1, 1),
                mode)]

CmdlineInit ==
    /\ HttpIdle
    /\ ExtractIdle
    /\ RunIdle
    /\ EntriesIdle
    /\ MountsIdle
    /\ LoadOptionIdle
    /\ CodecIdle
    /\ FsIdle
    /\ PromoteIdle
    /\ StoreIdle
    /\ KexecIdle
    /\ UkiIdle
    /\ CloserIdle
    /\ cmdPc = "patch"
    /\ \E layout \in CmdlineLayouts, cmdline \in CmdlineSamples, mode \in PadModes :
        LET secs == CmdlineFile(layout, cmdline, mode)
        IN /\ ukiBytes = FlatBytes(secs)
           /\ ukiSections = SectionTable(secs)
    /\ ukiBefore = ukiBytes
    /\ newCmdline = <<>>
    /\ patchFault = "none"
    /\ patchErr = ""
    /\ cmdlineRead = NoCmdlineRead

\* A call of PatchCmdline.
CmdPatch ==
    /\ cmdPc = "patch"
    /\ \E new \in CmdlineSamples, fault \in PatchFaults, written \in 0..MaxCmdlineLen :
        LET r == PatchCmdline(ukiBytes, ukiSections, new, fault, written)
        IN /\ newCmdline' = new
           /\ patchFault' = IF r.err \in {"open file for writing", "seek to .cmdline", "write .cmdline"}
                            THEN fault ELSE "none"
           /\ patchErr' = r.err
           /\ ukiBytes' = r.bytes
    /\ cmdPc' = "read"
    /\ UNCHANGED <<ukiSections, ukiBefore, cmdlineRead, notCmdlineVars>>

\* The call of ReadCmdline that follows.
CmdRead ==
    /\ cmdPc = "read"
    /\ cmdlineRead' = ReadCmdline(ukiBytes, ukiSections)
    /\ cmdPc' = "done"
    /\ UNCHANGED <<ukiBytes, ukiSections, ukiBefore, newCmdline, patchFault, patchErr, notCmdlineVars>>

CmdlineNext ==
    \/ CmdPatch
    \/ CmdRead

SpecCmdline == CmdlineInit /\ [][CmdlineNext]_vars

(***************************************************************************)
(* Claims about PatchCmdline and ReadCmdline.                              *)
(***************************************************************************)
\* The file has a .cmdline section.
HasCmdline == FindCmdline(ukiSections) # 0

\* The reserved size of the .cmdline section, the limit PatchCmdline enforces.
ReservedSize ==
    LET section == ukiSections[FindCmdline(ukiSections)]
    IN IF section.Size = 0 THEN section.VirtualSize ELSE section.Size

\* C15: for every new cmdline no longer than the reserved size of the
\* .cmdline section, PatchCmdline succeeds (no I/O failure met) and the
\* ReadCmdline that follows returns the new cmdline with its padding trimmed.
C15_PatchThenRead ==
    (cmdPc = "done" /\ HasCmdline /\ Len(newCmdline) <= ReservedSize /\ patchFault = "none") =>
        /\ patchErr = ""
        /\ cmdlineRead = [err |-> "", value |-> TrimRightNul(newCmdline)]

\* C16: if the new cmdline is longer than the reserved size, PatchCmdline
\* returns an error and writes nothing: the file is byte for byte what it
\* was before the call.
C16_TooLongNoWrite ==
    (cmdPc \in {"read", "done"} /\ HasCmdline /\ Len(newCmdline) > ReservedSize) =>
        /\ patchErr = "new cmdline too long"
        /\ ukiBytes = ukiBefore

\* A cmdline one byte longer than a section with data was refused.
C16_Witness ==
    /\ cmdPc = "read"
    /\ HasCmdline
    /\ ReservedSize > 0
    /\ Len(newCmdline) = ReservedSize + 1
    /\ patchErr = "new cmdline too long"
    /\ ukiBytes = ukiBefore

(***************************************************************************)
(* unmarshalLoadOption (internal/efi/efi.go, lines 486-504) on records     *)
(* built around a description: header bytes, the description in UTF-16LE,  *)
(* a 16-bit NUL, device-path bytes.                                        *)
(***************************************************************************)
\* The descriptions: "Talos Linux UKI", and the texts of up to
\* MaxDescriptionLen code points out of "A", "T" and U+0100.
DescriptionSamples == {TalosDescription} \cup SeqsUpTo({65, 84, 256}, MaxDescriptionLen)

\* Header bytes: the first four (attributes), and the two after them that
\* hold the length of the device path.
HeaderSamples == {<<1, 0, 0, 0>>, <<0, 0, 0, 0>>, <<255, 255, 255, 255>>}

DevicePathSamples == {<<>>, <<4, 1>>, <<0, 0>>, <<127, 255, 4, 0>>}

\* A record with a header of 4 bytes, or of 6: the 4 and the 2-byte length
\* of the device path.
RecordWithHeader(headerLen, header, description, devicePath) ==
    header
        \o (IF headerLen = 6 THEN <<Len(devicePath) % 256, Len(devicePath) \div 256>> ELSE <<>>)
        \o Utf16LE(description) \o <<0, 0>> \o devicePath

LoadOptionInit ==
    /\ HttpIdle
    /\ ExtractIdle
    /\ RunIdle
    /\ EntriesIdle
    /\ MountsIdle
    /\ CodecIdle
    /\ FsIdle
    /\ PromoteIdle
    /\ StoreIdle
    /\ KexecIdle
    /\ UkiIdle
    /\ CloserIdle
    /\ CmdlineIdle
    /\ loStep = "record"
    /\ loDescription \in DescriptionSamples
    /\ loHeaderLen \in {4, 6}
    /\ \E header \in HeaderSamples, devicePath \in DevicePathSamples :
        loData = RecordWithHeader(loHeaderLen, header, loDescription, devicePath)
    /\ loOption = NoOption

\* A call of unmarshalLoadOption.
LoadOptionDecode ==
    /\ loStep = "record"
    /\ loOption' = unmarshalLoadOption(loData)
    /\ loStep' = "decoded"
    /\ UNCHANGED <<loDescription, loHeaderLen, loData, notLoadOptionVars>>

LoadOptionNext == LoadOptionDecode

SpecLoadOption == LoadOptionInit /\ [][LoadOptionNext]_vars

\* C18: for any description, a record laid out as 4 header bytes, the
\* description in UTF-16LE, a 16-bit NUL and arbitrary device-path bytes
\* decodes to exactly that description, whatever the header and the
\* device-path bytes.
C18_DecodesDescription ==
    (loStep = "decoded" /\ loHeaderLen = 4) =>
        /\ ~loOption.err
        /\ loOption.Description = loDescription

(***************************************************************************)
(* Claims about UpdateEFIVariables (promoteEntry).                         *)
(***************************************************************************)
\* The call has returned nil.
PromoteSucceeded == ppc = "done" /\ perr = "none"

\* The BootOrder list the firmware holds now.
StoredBootOrder ==
    unmarshalBootOrder(Read(efivars, scopeGlobal, BootOrderName).value)

\* Index idx belongs to a boot entry the call listed that carries the
\* matched description.
CarriesMatched(idx) ==
    idx \in DOMAIN bootEntries /\ bootEntries[idx].Description = TalosDescription

\* C3: when promotion succeeds, the BootOrder that is written is the matched
\* entry's index followed by exactly those elements of the original BootOrder,
\* in their original relative order, whose index does not belong to any boot
\* entry carrying the matched description; so the matched index occurs exactly
\* once, at position 0, and no other index sharing that description occurs.
C3_NewOrder ==
    PromoteSucceeded =>
        /\ Read(efivars, scopeGlobal, BootOrderName).err = "none"
        /\ ~StoredBootOrder.err
        /\ StoredBootOrder.out =
              <<talosBootEntryIndex>> \o SelectSeq(bootOrder, LAMBDA idx : ~CarriesMatched(idx))
        /\ CarriesMatched(talosBootEntryIndex)
        /\ \A k \in 2..Len(StoredBootOrder.out) : ~CarriesMatched(StoredBootOrder.out[k])

\* A promotion succeeded where the original order held the matched entry, a
\* stale duplicate of it and an unrelated entry.
C3_Witness ==
    /\ PromoteSucceeded
    /\ bootOrder = <<9, 1, 7>>
    /\ talosBootEntryIndex = 7
    /\ CarriesMatched(9)
    /\ ~CarriesMatched(1)
    /\ StoredBootOrder.out = <<7, 1>>

\* The firmware state of the example: {0001: "Other", 0007: "Talos Linux UKI",
\* 0009: "Talos Linux UKI"} and BootOrder [1,7,9].
C4_ExampleState ==
    /\ DOMAIN bootEntries = {1, 7, 9}
    /\ bootEntries[1].Description = OtherDescription
    /\ bootEntries[7].Description = TalosDescription
    /\ bootEntries[9].Description = TalosDescription
    /\ bootOrder = <<1, 7, 9>>

\* C4: with boot entries {0001: "Other", 0007: "Talos Linux UKI", 0009: "Talos
\* Linux UKI"} and original order [1,7,9], promotion writes exactly [7,1] on
\* every execution: the entry placed first is the first matching entry, the
\* same on every execution for the same firmware variable state.
C4_ExampleYields71 ==
    (PromoteSucceeded /\ C4_ExampleState) => StoredBootOrder.out = <<7, 1>>

\* A variable named as a boot entry whose record does not decode.
HasUndecodableEntry ==
    \E name \in List(efivars, scopeGlobal) :
        /\ bootVarRegexp(name)
        /\ Read(efivars, scopeGlobal, name).err = "none"
        /\ unmarshalLoadOption(Read(efivars, scopeGlobal, name).value).err

\* C19: a boot-entry variable whose name matches the pattern but whose record
\* cannot be decoded makes the promotion fail with the decode error; it is
\* never skipped while the promotion carries on.
C19_UndecodableEntryFails ==
    (ppc = "done" /\ HasUndecodableEntry) => perr # "none"

\* The call read BootOrder and found that the variable does not exist.
BootOrderWasAbsent ==
    \E k \in 1..Len(ops) :
        ops[k].op = "read" /\ ops[k].name = BootOrderName /\ ops[k].err = "notexist"

\* C22: if the BootOrder variable does not exist, the promotion does not fail
\* on that account: it takes the original order to be empty, goes on to list
\* the entries and, when one matches and the write goes through, succeeds and
\* writes a BootOrder that is the matched index alone.
C22_AbsentBootOrderIsEmpty ==
    BootOrderWasAbsent =>
        /\ perr # "getBootOrder"
        /\ bootOrder = <<>>
        /\ ppc # "listBootEntries" => \E k \in 1..Len(ops) : ops[k].op = "list"
        /\ (ppc = "done" /\ perr \notin {"listBootEntries", "setBootOrder"}) =>
              IF \E idx \in DOMAIN bootEntries : bootEntries[idx].Description = TalosDescription
              THEN /\ perr = "none"
                   /\ ~StoredBootOrder.err
                   /\ StoredBootOrder.out = <<talosBootEntryIndex>>
              ELSE perr = "notfound"

\* A promotion that found no BootOrder succeeded and wrote the one index.
C22_Witness ==
    /\ BootOrderWasAbsent
    /\ PromoteSucceeded
    /\ StoredBootOrder.out = <<7>>

\* C5: if no boot entry has a description equal to the match description,
\* the call returns an error and no write to the BootOrder variable is issued
\* at any point during it.
C5_NoMatchNoWrite ==
    LET listed == listBootEntries(efivars)
    IN  (\A idx \in DOMAIN listed : listed[idx].Description # TalosDescription) =>
            /\ \A k \in 1..Len(ops) :
                  ~(ops[k].op \in {"open-write", "write"} /\ ops[k].name = BootOrderName)
            /\ ppc = "done" => perr # "none"

\* A call that listed entries, none carrying the description, has returned.
C5_Witness ==
    /\ ppc = "done"
    /\ perr = "notfound"
    /\ DOMAIN bootEntries = {1}
    /\ bootOrder = <<1, 7>>

\* C6: every call that succeeded in remounting the firmware variable
\* filesystem read-write issues a remount to read-only before it returns, on
\* every return path; a call whose read-write remount failed returns without
\* reading or writing any variable.
C6_RemountReverted ==
    ppc = "done" =>
        /\ ops[1].op = "remount" /\ ops[1].mode = "rw"
        /\ ops[1].ok =>
              /\ Len(ops) >= 2
              /\ ops[Len(ops)].op = "remount" /\ ops[Len(ops)].mode = "ro"
              /\ \A k \in 2..(Len(ops) - 1) : ops[k].op # "remount"
        /\ ~ops[1].ok => (Len(ops) = 1 /\ perr = "remount")

\* A call whose BootOrder write failed has returned, the remount to read-only
\* being the last thing it issued.
C6_Witness ==
    /\ ppc = "done"
    /\ perr = "setBootOrder"
    /\ ops[1].ok
    /\ ops[Len(ops)].op = "remount" /\ ops[Len(ops)].mode = "ro"
    /\ \E k \in 1..Len(ops) : ops[k].op = "write" /\ ~ops[k].ok

(***************************************************************************)
(* Claims about the BootOrder codec.                                       *)
(***************************************************************************)

\* C8: for every list of 16-bit boot-entry indices, the empty list included,
\* decoding the little-endian encoding of the list succeeds and yields the
\* original list: same length, same elements, same order.
C8_RoundTrip ==
    cstep = "decoded" =>
        /\ ~dec.err
        /\ Len(dec.out) = Len(bo)
        /\ \A i \in 1..Len(bo) : dec.out[i] = bo[i]

\* A non-empty list with a high byte set has been encoded and decoded.
C8_Witness ==
    /\ cstep = "decoded"
    /\ Len(bo) = 2
    /\ bo[1] = 43981
    /\ bo[2] = 1
    /\ raw = <<205, 171, 1, 0>>

\* The empty list has been encoded and decoded.
C8_WitnessEmpty == cstep = "decoded" /\ bo = <<>> /\ raw = <<>>

\* C9: decoding a BootOrder buffer fails for every buffer of odd byte length
\* and succeeds for every buffer of even byte length, yielding length/2
\* indices.
C9_OddRejected ==
    cstep = "decodedRaw" =>
        /\ dec.err <=> (Len(raw) % 2 = 1)
        /\ ~dec.err => Len(dec.out) * 2 = Len(raw)

\* An odd-length buffer has been rejected.
C9_Witness == cstep = "decodedRaw" /\ Len(raw) = 3 /\ dec.err

(***************************************************************************)
(* Several callers, each opening and closing stores on the one efivarfs    *)
(* mount (internal/efi/efi.go lines 275-292).                              *)
(***************************************************************************)
MaxStores == 2
MaxLifetimes == 2

Callers == 1..MaxStores

NoStore == [open |-> FALSE, write |-> FALSE, lifetimes |-> 0]

\* A store opened without touching the mount.
MountAfterOpenKept(write, mode) == mode

\* Lines 276-282: a write-mode store remounts read-write.
MountAfterOpen(write, mode) == IF write THEN "rw" ELSE mode

\* Lines 287-290: closing a write-mode store remounts read-only, whatever
\* other stores are open.
MountAfterClose(write, mode) == IF write THEN "ro" ELSE mode

MountsInit ==
    /\ HttpIdle
    /\ ExtractIdle
    /\ RunIdle
    /\ EntriesIdle
    /\ CodecIdle
    /\ PromoteIdle
    /\ StoreIdle
    /\ KexecIdle
    /\ UkiIdle
    /\ CloserIdle
    /\ CmdlineIdle
    /\ LoadOptionIdle
    /\ efivars = <<>>
    /\ ops = <<>>
    /\ mountMode \in {"ro", "rw"}
    /\ serialized \in BOOLEAN
    /\ rwStores = [c \in Callers |-> NoStore]

\* Another caller holds an open write-mode store.
OtherWriterOpen(c) == \E d \in Callers \ {c} : rwStores[d].open /\ rwStores[d].write

\* func newEFIReaderWriter(write bool): unix.Mount may fail, and then no
\* store is returned.  Serialized callers open a write-mode store only when
\* no other one is open.
MountsOpen(c) ==
    /\ ~rwStores[c].open
    /\ rwStores[c].lifetimes < MaxLifetimes
    /\ \E write \in BOOLEAN, ok \in BOOLEAN :
        /\ (serialized /\ write) => ~OtherWriterOpen(c)
        /\ IF write /\ ~ok
           THEN /\ rwStores' = [rwStores EXCEPT ![c].lifetimes = @ + 1]
                /\ UNCHANGED mountMode
           ELSE /\ rwStores' = [rwStores EXCEPT ![c] =
                                   [open |-> TRUE, write |-> write, lifetimes |-> @.lifetimes + 1]]
                /\ mountMode' = MountAfterOpen(write, mountMode)
    /\ UNCHANGED <<efivars, ops, serialized, notMountsVars>>

\* func (rw *efiFilesystemReaderWriter) Close(): unix.Mount may fail, and
\* then the mount stays as it was.
MountsClose(c) ==
    /\ rwStores[c].open
    /\ \E ok \in BOOLEAN :
        mountMode' = IF ok THEN MountAfterClose(rwStores[c].write, mountMode) ELSE mountMode
    /\ rwStores' = [rwStores EXCEPT ![c].open = FALSE]
    /\ UNCHANGED <<efivars, ops, serialized, notMountsVars>>

MountsNext == \E c \in Callers : MountsOpen(c) \/ MountsClose(c)

SpecMounts == MountsInit /\ [][MountsNext]_vars

\* C26: when the callers serialize the lifetimes of write-mode stores, the
\* filesystem is mounted read-write for as long as a write-mode store is
\* open.  (Without serialization it is not: closing one of two overlapping
\* write-mode stores remounts read-only under the other, the state of
\* C26_WitnessOverlap.)
C26_SerializedStaysWritable ==
    serialized =>
        \A c \in Callers : (rwStores[c].open /\ rwStores[c].write) => mountMode = "rw"

\* Serialized callers: a write-mode store is open after an earlier lifetime
\* of another caller's write-mode store has ended.
C26_Witness ==
    /\ serialized
    /\ rwStores[1].open /\ rwStores[1].write
    /\ ~rwStores[2].open /\ rwStores[2].write /\ rwStores[2].lifetimes >= 1
    /\ mountMode = "rw"

\* Unserialized callers: a write-mode store is open on a read-only mount.
C26_WitnessOverlap ==
    /\ ~serialized
    /\ rwStores[1].open /\ rwStores[1].write
    /\ ~rwStores[2].open /\ rwStores[2].write /\ rwStores[2].lifetimes = 1
    /\ mountMode = "ro"

(***************************************************************************)
(* listBootEntries over variable names of every letter case                *)
(* (internal/efi/efi.go lines 435-484).                                    *)
(***************************************************************************)
\* Boot00AB, Boot00ab, Boot00aB and Boot0001; BootOrde matches no pattern.
CaseNames ==
    {BootPrefix \o <<"0", "0", "A", "B">>, BootPrefix \o <<"0", "0", "a", "b">>,
     BootPrefix \o <<"0", "0", "a", "B">>, BootPrefix \o <<"0", "0", "0", "1">>}

\* The variable directories: each name absent or holding a record.
CaseFirmware ==
    {[path \in {varPath(scopeGlobal, n) : n \in CaseNames} |-> choice[path[1]]] :
        choice \in [CaseNames -> {NoFile, TalosEntry, OtherEntry, MalformedEntry}]}

EntriesInit ==
    /\ HttpIdle
    /\ ExtractIdle
    /\ RunIdle
    /\ CodecIdle
    /\ PromoteIdle
    /\ StoreIdle
    /\ KexecIdle
    /\ UkiIdle
    /\ CloserIdle
    /\ CmdlineIdle
    /\ LoadOptionIdle
    /\ MountsIdle
    /\ efivars \in CaseFirmware
    /\ mountMode = "ro"
    /\ ops = <<>>
    /\ lpc = "list"
    /\ entryMap = <<>>

\* bootEntries, err := listBootEntries(rw), List having succeeded.
EntriesList ==
    /\ lpc = "list"
    /\ entryMap' = listBootEntries(efivars)
    /\ lpc' = "listed"
    /\ UNCHANGED <<fsVars, notEntriesVars>>

EntriesNext == EntriesList

SpecEntries == EntriesInit /\ [][EntriesNext]_vars

\* The record of the variable called name decodes.
Decodes(name) ==
    /\ Read(efivars, scopeGlobal, name).err = "none"
    /\ ~unmarshalLoadOption(Read(efivars, scopeGlobal, name).value).err

\* C28: every variable whose name is Boot followed by four hexadecimal
\* digits of any letter case, mixed case included, and whose record decodes,
\* is in the boot-entry map under its numeric index, with its description.
C28_EveryCaseListed ==
    lpc = "listed" =>
        \A name \in List(efivars, scopeGlobal) :
            (bootVarRegexp(name) /\ Decodes(name)) =>
                /\ ParseUint16Hex(name) \in DOMAIN entryMap
                /\ entryMap[ParseUint16Hex(name)].Description =
                      unmarshalLoadOption(Read(efivars, scopeGlobal, name).value).Description

(***************************************************************************)
(* One run of the program: main (part_002 lines 76-84), RunBootMode        *)
(* (part_004 lines 190-220), RunInstallMode, runDiskImageInstall and       *)
(* runChrootInstall (internal/install/install.go lines 107-303).           *)
(* cli.Must and log.Fatal end the process: runPc becomes "exited".         *)
(***************************************************************************)
RunInit ==
    /\ HttpIdle
    /\ ExtractIdle
    /\ CodecIdle
    /\ FsIdle
    /\ PromoteIdle
    /\ StoreIdle
    /\ KexecIdle
    /\ UkiIdle
    /\ CloserIdle
    /\ CmdlineIdle
    /\ LoadOptionIdle
    /\ MountsIdle
    /\ EntriesIdle
    /\ runPc = "dispatch"
    /\ modeFlag \in {"boot", "install"}
    /\ uefiBoot \in BOOLEAN
    /\ assetKind \in {"diskImage", "rootfs", "neither"}
    /\ ukiPath = ""
    /\ events = <<>>

RunInputs == <<modeFlag, uefiBoot, assetKind>>

\* The update made whatever the boot method and the UKI found.
ShouldUpdateEFIAlways(uefi, path) == TRUE

\* install.go line 291: if efi.IsUEFIBoot() && ukiPath != ""
ShouldUpdateEFI(uefi, path) == uefi /\ path # ""

\* part_002 lines 76-84: boot mode or install mode.
RunDispatch ==
    /\ runPc = "dispatch"
    /\ runPc' = IF modeFlag = "boot" THEN "bootConfirm" ELSE "installConfirm"
    /\ UNCHANGED <<RunInputs, ukiPath, events, notRunVars>>

\* part_004 lines 203-205: the operator confirms or the run is aborted.
RunBootConfirm ==
    /\ runPc = "bootConfirm"
    /\ \E yes \in BOOLEAN :
        /\ events' = Append(events, IF yes THEN "confirmed" ELSE "aborted")
        /\ runPc' = IF yes THEN "bootAssets" ELSE "exited"
    /\ UNCHANGED <<RunInputs, ukiPath, notRunVars>>

\* part_004 lines 211-213: source.GetBootAssets()
RunBootAssets ==
    /\ runPc = "bootAssets"
    /\ \E ok \in BOOLEAN :
        /\ events' = Append(events, IF ok THEN "GetBootAssets" ELSE "GetBootAssets failed")
        /\ runPc' = IF ok THEN "kexec" ELSE "exited"
    /\ UNCHANGED <<RunInputs, ukiPath, notRunVars>>

\* part_004 lines 215-219: KexecLoadFromAssets restarts into the new kernel
\* or returns an error, which ends the run.
RunKexec ==
    /\ runPc = "kexec"
    /\ \E ok \in BOOLEAN :
        /\ events' = Append(events, IF ok THEN "kexec" ELSE "kexec failed")
        /\ runPc' = IF ok THEN "rebooted" ELSE "exited"
    /\ UNCHANGED <<RunInputs, ukiPath, notRunVars>>

\* install.go lines 108-146: on UEFI with Secure Boot enabled the operator
\* is asked once more; then the summary is confirmed.
RunInstallConfirm ==
    /\ runPc = "installConfirm"
    /\ \E secureBoot \in BOOLEAN, proceed \in BOOLEAN, yes \in BOOLEAN :
        LET warned == uefiBoot /\ secureBoot
            warning == IF warned THEN <<"warning: Secure Boot">> ELSE <<>>
        IN  IF warned /\ ~proceed
            THEN events' = warning \o <<"aborted">> /\ runPc' = "exited"
            ELSE /\ events' = warning \o <<IF yes THEN "confirmed" ELSE "aborted">>
                 /\ runPc' = IF yes THEN "installAssets" ELSE "exited"
    /\ UNCHANGED <<RunInputs, ukiPath, notRunVars>>

\* install.go lines 149-175: the tmpfs, GetInstallAssets, and the choice of
\* the installation method.
RunInstallAssets ==
    /\ runPc = "installAssets"
    /\ \E ok \in BOOLEAN :
        /\ events' = Append(events, IF ok THEN "GetInstallAssets" ELSE "GetInstallAssets failed")
        /\ runPc' = CASE ~ok -> "exited"
                       [] ok /\ assetKind = "diskImage" -> "imageCopy"
                       [] ok /\ assetKind = "rootfs" -> "installer"
                       [] OTHER -> "exited"
    /\ UNCHANGED <<RunInputs, ukiPath, notRunVars>>

\* install.go lines 178-209, runDiskImageInstall: copy the disk image, then
\* restart through sysrq.
RunImageCopy ==
    /\ runPc = "imageCopy"
    /\ \E ok \in BOOLEAN :
        /\ events' = IF ok THEN events \o <<"copy", "reboot">> ELSE Append(events, "copy failed")
        /\ runPc' = IF ok THEN "rebooted" ELSE "exited"
    /\ UNCHANGED <<RunInputs, ukiPath, notRunVars>>

\* install.go lines 212-268: the raw image, the loop device and the Talos
\* installer run in the chroot.
RunInstaller ==
    /\ runPc = "installer"
    /\ \E ok \in BOOLEAN :
        /\ events' = Append(events, IF ok THEN "installer" ELSE "installer failed")
        /\ runPc' = IF ok THEN "ukiInfo" ELSE "exited"
    /\ UNCHANGED <<RunInputs, ukiPath, notRunVars>>

\* install.go lines 270-281: on UEFI, GetUKIAndPartitionInfo; its error is
\* a warning and leaves ukiPath empty.
RunUKIInfo ==
    /\ runPc = "ukiInfo"
    /\ IF uefiBoot
       THEN \E ok \in BOOLEAN :
              /\ ukiPath' = IF ok THEN "talos.efi" ELSE ""
              /\ events' = Append(events, IF ok THEN "GetUKIAndPartitionInfo"
                                                 ELSE "GetUKIAndPartitionInfo failed")
       ELSE UNCHANGED <<ukiPath, events>>
    /\ runPc' = "copy"
    /\ UNCHANGED <<RunInputs, notRunVars>>

\* install.go lines 283-287: sysrq u, then CopyWithFsync(raw, disk), whose
\* failures end the run.
RunCopy ==
    /\ runPc = "copy"
    /\ \E ok \in BOOLEAN :
        /\ events' = Append(events, IF ok THEN "copy" ELSE "copy failed")
        /\ runPc' = IF ok THEN "updateEFI" ELSE "exited"
    /\ UNCHANGED <<RunInputs, ukiPath, notRunVars>>

\* install.go lines 289-299: UpdateEFIVariables, whose error is a warning,
\* then the restart through sysrq.
RunUpdateEFI ==
    /\ runPc = "updateEFI"
    /\ \E ok \in BOOLEAN :
        events' = (IF ShouldUpdateEFI(uefiBoot, ukiPath)
                   THEN events \o <<"UpdateEFIVariables">>
                            \o (IF ok THEN <<>> ELSE <<"warning: UpdateEFIVariables">>)
                   ELSE events) \o <<"reboot">>
    /\ runPc' = "rebooted"
    /\ UNCHANGED <<RunInputs, ukiPath, notRunVars>>

RunNext ==
    \/ RunDispatch
    \/ RunBootConfirm
    \/ RunBootAssets
    \/ RunKexec
    \/ RunInstallConfirm
    \/ RunInstallAssets
    \/ RunImageCopy
    \/ RunInstaller
    \/ RunUKIInfo
    \/ RunCopy
    \/ RunUpdateEFI

SpecRun == RunInit /\ [][RunNext]_vars

\* C29: UpdateEFIVariables is invoked only in install mode, on a system
\* booted through UEFI, and after the copy of the installed image to the
\* target disk has completed; never in boot mode, never on a BIOS system.
C29_UpdateOnlyAfterCopy ==
    \A k \in 1..Len(events) :
        events[k] = "UpdateEFIVariables" =>
            /\ modeFlag = "install"
            /\ uefiBoot
            /\ \E j \in 1..(k - 1) : events[j] = "copy"
            /\ \A j \in 1..Len(events) : events[j] # "kexec"

\* An install on UEFI that copied the image and then updated the variables.
C29_Witness ==
    /\ runPc = "rebooted"
    /\ modeFlag = "install"
    /\ uefiBoot
    /\ events = <<"confirmed", "GetInstallAssets", "installer", "GetUKIAndPartitionInfo",
                  "copy", "UpdateEFIVariables", "reboot">>

\* An install on BIOS that restarted without the update.
C29_WitnessBios ==
    /\ runPc = "rebooted"
    /\ modeFlag = "install"
    /\ ~uefiBoot
    /\ events = <<"confirmed", "GetInstallAssets", "installer", "copy", "reboot">>

(***************************************************************************)
(* extractLayer: internal/source/container.go, lines 237-327.              *)
(* A path is the sequence of its elements from the root.  A tar name is    *)
(* [dir, base, wh]: the elements before the last one, and the last one,    *)
(* which reads ".wh." \o base when wh holds.  A link name is [abs, parts]. *)
(***************************************************************************)
MaxEntries == 3
MaxSymlinks == 3

Dir == [kind |-> "dir", data |-> "", link |-> [abs |-> FALSE, parts |-> <<>>]]
RegularFile(data) == [kind |-> "file", data |-> data, link |-> [abs |-> FALSE, parts |-> <<>>]]
Symlink(linkname) == [kind |-> "symlink", data |-> "", link |-> linkname]
Device == [kind |-> "dev", data |-> "", link |-> [abs |-> FALSE, parts |-> <<>>]]

Parent(path) == IF path = <<>> THEN <<>> ELSE SubSeq(path, 1, Len(path) - 1)

\* filepath.Clean of an absolute path: "." dropped, ".." taking the element
\* before it away, the root being its own parent.
RECURSIVE CleanFrom(_, _)
CleanFrom(done, rest) ==
    IF rest = <<>> THEN done
    ELSE IF Head(rest) = "." THEN CleanFrom(done, Tail(rest))
    ELSE IF Head(rest) = ".." THEN CleanFrom(Parent(done), Tail(rest))
    ELSE CleanFrom(Append(done, Head(rest)), Tail(rest))

\* filepath.Join(dir, elems...) for an absolute dir: concatenation, cleaned.
PathJoin(dir, elems) == CleanFrom(<<>>, dir \o elems)

\* Lines 264 and 292, 306: strings.HasPrefix(clean, cleanDest + "/") ||
\* clean == cleanDest.
WithinDest(cleanDest, cleanPath) ==
    /\ Len(cleanPath) >= Len(cleanDest)
    /\ SubSeq(cleanPath, 1, Len(cleanDest)) = cleanDest

IsDirAt(t, path) == path = <<>> \/ (path \in DOMAIN t /\ t[path].kind = "dir")

\* The kernel's path walk from cur over rest: symbolic links met on the way
\* are followed, the last element's only if followLast; ".." is the parent
\* of the directory reached.  The result is the path reached, which may not
\* exist if only its last element is missing.
RECURSIVE Walk(_, _, _, _, _)
Walk(t, cur, rest, followLast, fuel) ==
    IF rest = <<>> THEN [ok |-> TRUE, path |-> cur]
    ELSE LET c == Head(rest)
             more == Tail(rest)
             next == Append(cur, c)
         IN  IF c = "." THEN Walk(t, cur, more, followLast, fuel)
             ELSE IF c = ".." THEN Walk(t, Parent(cur), more, followLast, fuel)
             ELSE IF next \notin DOMAIN t
             THEN [ok |-> more = <<>>, path |-> next]
             ELSE IF t[next].kind = "symlink" /\ (more # <<>> \/ followLast)
             THEN IF fuel = 0 THEN [ok |-> FALSE, path |-> next]
                  ELSE Walk(t, IF t[next].link.abs THEN <<>> ELSE cur,
                            t[next].link.parts \o more, followLast, fuel - 1)
             ELSE IF t[next].kind # "dir" /\ more # <<>>
             THEN [ok |-> FALSE, path |-> next]
             ELSE Walk(t, next, more, followLast, fuel)

Lookup(t, path, followLast) == Walk(t, <<>>, path, followLast, MaxSymlinks)

Put(t, path, node) == [q \in DOMAIN t \cup {path} |-> IF q = path THEN node ELSE t[q]]

\* os.MkdirAll(path, perm): every missing directory on the way is made; it
\* fails on an element that is not a directory and does not lead to one.
RECURSIVE MkdirAllFrom(_, _, _)
MkdirAllFrom(t, path, i) ==
    IF i > Len(path) THEN [ok |-> TRUE, tree |-> t]
    ELSE LET followed == Lookup(t, SubSeq(path, 1, i), TRUE)
             itself == Lookup(t, SubSeq(path, 1, i), FALSE)
         IN  IF ~followed.ok THEN [ok |-> FALSE, tree |-> t]
             ELSE IF IsDirAt(t, followed.path) THEN MkdirAllFrom(t, path, i + 1)
             ELSE IF followed.path \in DOMAIN t \/ itself.path \in DOMAIN t
             THEN [ok |-> FALSE, tree |-> t]
             ELSE MkdirAllFrom(Put(t, followed.path, Dir), path, i + 1)

MkdirAll(t, path) == MkdirAllFrom(t, path, 1)

\* os.Create(name): O_CREATE|O_TRUNC, following a symbolic link at name.
Create(t, path, data) ==
    LET r == Lookup(t, path, TRUE)
    IN  IF ~r.ok \/ IsDirAt(t, r.path) THEN [ok |-> FALSE, tree |-> t]
        ELSE [ok |-> TRUE, tree |-> Put(t, r.path, RegularFile(data))]

\* os.Remove(name): a file, a symbolic link or an empty directory.
Remove(t, path) ==
    LET r == Lookup(t, path, FALSE)
        empty == \A q \in DOMAIN t : ~(Len(q) > Len(r.path) /\ SubSeq(q, 1, Len(r.path)) = r.path)
    IN  IF r.ok /\ r.path \in DOMAIN t /\ (t[r.path].kind = "dir" => empty)
        THEN [q \in DOMAIN t \ {r.path} |-> t[q]]
        ELSE t

\* os.RemoveAll(path): path and everything below it; a symbolic link at
\* path is removed, not followed.
RemoveAll(t, path) ==
    LET r == Lookup(t, path, FALSE)
    IN  IF r.ok
        THEN [q \in {q \in DOMAIN t : ~WithinDest(r.path, q)} |-> t[q]]
        ELSE t

\* A new node at path, which must not exist: os.Symlink, os.Link,
\* unix.Mknod.
CreateNew(t, path, node) ==
    LET r == Lookup(t, path, FALSE)
    IN  IF r.ok /\ r.path # <<>> /\ r.path \notin DOMAIN t THEN Put(t, r.path, node) ELSE t

\* os.Link(oldname, newname): oldname is not followed and is no directory.
Link(t, oldname, newname) ==
    LET r == Lookup(t, oldname, FALSE)
    IN  IF r.ok /\ r.path \in DOMAIN t /\ t[r.path].kind # "dir"
        THEN CreateNew(t, newname, t[r.path])
        ELSE t

destDir == <<"t", "dest">>

\* The tree before the extraction: destDir, empty, and a file beside it.
TreeBefore ==
    [q \in {<<"t">>, destDir, <<"t", "sensitive">>} |->
        IF q = <<"t", "sensitive">> THEN RegularFile("secret") ELSE Dir]

NameParts(name) == Append(name.dir, name.base)

\* One turn of the loop of lines 246-325 on the entry header.
extractEntry(t, header) ==
    LET target == PathJoin(destDir, NameParts(header.Name))
        cleanDest == PathJoin(destDir, <<>>)
        parents == MkdirAll(t, Parent(target))
    IN  IF header.Name.wh
        THEN \* lines 254-258
             [ok |-> TRUE,
              tree |-> RemoveAll(t, PathJoin(destDir, Append(header.Name.dir, header.Name.base)))]
        ELSE IF ~WithinDest(cleanDest, target) THEN [ok |-> TRUE, tree |-> t]
        ELSE CASE header.Typeflag = "TypeDir" ->
                    [ok |-> TRUE, tree |-> MkdirAll(t, target).tree]
               [] header.Typeflag = "TypeReg" ->
                    IF ~parents.ok THEN [ok |-> FALSE, tree |-> parents.tree]
                    ELSE Create(parents.tree, target, "layer")
               [] header.Typeflag = "TypeSymlink" ->
                    LET cleanLink == IF header.Linkname.abs
                                     THEN CleanFrom(<<>>, header.Linkname.parts)
                                     ELSE PathJoin(Parent(target), header.Linkname.parts)
                    IN  IF ~WithinDest(cleanDest, cleanLink) THEN [ok |-> TRUE, tree |-> t]
                        ELSE [ok |-> TRUE,
                              tree |-> CreateNew(Remove(parents.tree, target), target,
                                                 Symlink(header.Linkname))]
               [] header.Typeflag = "TypeLink" ->
                    LET cleanSource == PathJoin(destDir, header.Linkname.parts)
                    IN  IF ~WithinDest(cleanDest, cleanSource) THEN [ok |-> TRUE, tree |-> t]
                        ELSE [ok |-> TRUE, tree |-> Link(parents.tree, cleanSource, target)]
               [] header.Typeflag = "TypeChar" ->
                    [ok |-> TRUE, tree |-> CreateNew(parents.tree, target, Device)]
               [] OTHER -> [ok |-> TRUE, tree |-> t]

\* The names, link names and entries of the layers.
TarNames ==
    {[dir |-> d, base |-> b, wh |-> w] :
        d \in {<<>>, <<"a">>, <<"..">>, <<"sensitive">>}, b \in {"a", "sensitive"}, w \in BOOLEAN}

Linknames ==
    {[abs |-> FALSE, parts |-> <<".">>], [abs |-> FALSE, parts |-> <<"..">>],
     [abs |-> FALSE, parts |-> <<"..", "sensitive">>], [abs |-> FALSE, parts |-> <<"a", "sensitive">>],
     [abs |-> TRUE, parts |-> <<"t", "sensitive">>], [abs |-> TRUE, parts |-> <<"t", "dest", "a">>]}

Headers ==
    [Name : TarNames, Typeflag : {"TypeDir", "TypeReg", "TypeChar", "TypeFifo"},
     Linkname : {[abs |-> FALSE, parts |-> <<>>]}]
        \cup [Name : TarNames, Typeflag : {"TypeSymlink", "TypeLink"}, Linkname : Linknames]

ExtractInit ==
    /\ HttpIdle
    /\ CodecIdle
    /\ FsIdle
    /\ PromoteIdle
    /\ StoreIdle
    /\ KexecIdle
    /\ UkiIdle
    /\ CloserIdle
    /\ CmdlineIdle
    /\ LoadOptionIdle
    /\ MountsIdle
    /\ EntriesIdle
    /\ RunIdle
    /\ xpc = "next"
    /\ tree = TreeBefore
    /\ extracted = 0

\* tr.Next() gave an entry, handled by one turn of the loop.
ExtractEntry ==
    /\ xpc = "next"
    /\ extracted < MaxEntries
    /\ \E header \in Headers :
        LET r == extractEntry(tree, header)
        IN  /\ tree' = r.tree
            /\ xpc' = IF r.ok THEN "next" ELSE "failed"
    /\ extracted' = extracted + 1
    /\ UNCHANGED notExtractVars

\* tr.Next() gave io.EOF, or an error (lines 247-253).
ExtractEnd ==
    /\ xpc = "next"
    /\ \E atEnd \in BOOLEAN : xpc' = IF atEnd THEN "done" ELSE "failed"
    /\ UNCHANGED <<tree, extracted, notExtractVars>>

ExtractNext == ExtractEntry \/ ExtractEnd

SpecExtract == ExtractInit /\ [][ExtractNext]_vars

\* What the filesystem holds outside destDir.
OutsideDest(t) == [q \in {q \in DOMAIN t : ~WithinDest(destDir, q)} |-> t[q]]

\* C25: whatever the names, types and link targets of a layer's entries,
\* extractLayer creates, overwrites and removes nothing outside destDir.
C25_NothingOutsideDest == OutsideDest(tree) = OutsideDest(TreeBefore)

\* The file beside destDir has been overwritten through symbolic links that
\* each pass the check of line 292.
C25_OverwrittenThroughLinks ==
    /\ <<"t", "sensitive">> \in DOMAIN tree
    /\ tree[<<"t", "sensitive">>].data = "layer"

(***************************************************************************)
(* HTTPSource.GetInstallAssets: internal/source/source.go lines 31-51,     *)
(* internal/source/http.go lines 138-182, and OpenDecompressed of the RAW  *)
(* source.  A file name is [stem, exts]: "disk.raw.xz" is the stem "disk"  *)
(* with the extensions <<"raw", "xz">>.                                    *)
(***************************************************************************)
MaxImageLen == 2

\* strings.ToLower on an extension.
ToLower(ext) ==
    CASE ext = "XZ" -> "xz"
      [] ext = "RAW" -> "raw"
      [] OTHER -> ext

LastExt(path) == IF path.exts = <<>> THEN "" ELSE ToLower(path.exts[Len(path.exts)])

\* func DetectCompression(path string) string
DetectCompression(path) == IF LastExt(path) \in {"xz", "gz", "zst"} THEN LastExt(path) ELSE ""

\* The first byte of an xz, gzip or zstd stream.
Magic(compression) ==
    CASE compression = "xz" -> 253
      [] compression = "gz" -> 31
      [] compression = "zst" -> 40

\* What a compressor makes of a disk image: its magic, then the content
\* encoded (here, each byte stepped by one).
Compressed(compression, content) ==
    IF compression = "" THEN content
    ELSE <<Magic(compression)>> \o [i \in 1..Len(content) |-> (content[i] + 1) % 256]

\* What xz.NewReader, gzip.NewReader and zstd.NewReader read from a file:
\* an error unless it starts with their magic.
Decompressed(compression, bytes) ==
    IF bytes = <<>> \/ bytes[1] # Magic(compression) THEN [err |-> "reader", bytes |-> <<>>]
    ELSE [err |-> "",
          bytes |-> [i \in 1..(Len(bytes) - 1) |-> (bytes[i + 1] + 255) % 256]]

\* func OpenDecompressed(path string): the stream the reader gives for the
\* file at path holding bytes.
OpenDecompressed(path, bytes) ==
    IF DetectCompression(path) = "" THEN [err |-> "", bytes |-> bytes]
    ELSE Decompressed(DetectCompression(path), bytes)

\* func detectHTTPImageSource(rawURL string): the target type, "" for a
\* container reference.
detectHTTPImageSource(path) ==
    LET n == Len(path.exts)
        beforeLast == IF n >= 2 THEN ToLower(path.exts[n - 1]) ELSE ""
    IN  CASE LastExt(path) = "iso" -> "ISO"
          [] LastExt(path) \in {"xz", "gz", "zst"} /\ beforeLast = "raw" -> "RAW"
          [] LastExt(path) = "raw" -> "RAW"
          [] OTHER -> ""

\* http.go line 165: os.CreateTemp("", "http-source-*"), the star replaced
\* by a random number.
TempFiles == {[stem |-> "http-source-" \o n, exts |-> <<>>] : n \in {"1", "2"}}

UrlPaths ==
    {[stem |-> "disk", exts |-> e] :
        e \in {<<"raw", "xz">>, <<"raw", "gz">>, <<"raw", "zst">>, <<"RAW", "XZ">>, <<"raw">>,
               <<"iso">>, <<>>, <<"xz">>}}

\* The bytes the server sends: the image compressed as the name says.
Served == Compressed(DetectCompression(urlPath), diskContent)

HttpInit ==
    /\ CodecIdle
    /\ FsIdle
    /\ PromoteIdle
    /\ StoreIdle
    /\ KexecIdle
    /\ UkiIdle
    /\ CloserIdle
    /\ CmdlineIdle
    /\ LoadOptionIdle
    /\ MountsIdle
    /\ EntriesIdle
    /\ RunIdle
    /\ ExtractIdle
    /\ hpc = "detect"
    /\ urlPath \in UrlPaths
    /\ diskContent \in SeqsUpTo({0, 1, 255}, MaxImageLen)
    /\ targetType = ""
    /\ tempFile = NoPath
    /\ installAssets = NoAssets

\* source.go lines 31-51: a container reference is not an HTTPSource.
HttpDetect ==
    /\ hpc = "detect"
    /\ targetType' = detectHTTPImageSource(urlPath)
    /\ hpc' = IF targetType' = "" THEN "done" ELSE "assets"
    /\ UNCHANGED <<urlPath, diskContent, tempFile, installAssets, notHttpVars>>

\* http.go lines 138-155 and 158-182: ensureDownloaded, which may fail, then
\* the delegation to a RAWSource on the temporary file (part_007 lines
\* 375-386).
HttpGetInstallAssets ==
    /\ hpc = "assets"
    /\ \E downloaded \in BOOLEAN, temp \in TempFiles :
        IF ~downloaded
        THEN /\ installAssets' = [err |-> "download", DiskImage |-> <<>>]
             /\ UNCHANGED tempFile
        ELSE /\ tempFile' = temp
             /\ installAssets' =
                  IF targetType = "RAW"
                  THEN LET reader == OpenDecompressed(temp, Served)
                       IN  [err |-> reader.err, DiskImage |-> reader.bytes]
                  ELSE [err |-> "ISO source install mode not supported", DiskImage |-> <<>>]
    /\ hpc' = "done"
    /\ UNCHANGED <<urlPath, diskContent, targetType, notHttpVars>>

HttpNext == HttpDetect \/ HttpGetInstallAssets

SpecHttp == HttpInit /\ [][HttpNext]_vars

\* The URL ends in .raw.xz, .raw.gz or .raw.zst.
CompressedRawUrl ==
    /\ Len(urlPath.exts) >= 2
    /\ urlPath.exts[Len(urlPath.exts) - 1] \in {"raw", "RAW"}
    /\ urlPath.exts[Len(urlPath.exts)] \in {"xz", "XZ", "gz", "zst"}

\* C30: for an HTTP(S) reference ending in .raw.xz, .raw.gz or .raw.zst,
\* the disk image stream GetInstallAssets returns is the decompressed image,
\* the bytes a local RAW source gives for the same compressed file under its
\* own name, and not the compressed bytes as downloaded.
C30_HttpStreamDecompressed ==
    (hpc = "done" /\ CompressedRawUrl /\ tempFile # NoPath) =>
        /\ installAssets.err = ""
        /\ installAssets.DiskImage = diskContent
        /\ installAssets.DiskImage = OpenDecompressed(urlPath, Served).bytes

====
